---- MODULE Spec2Model ----
(***************************************************************************)
(* Marketing record store: segmentation rules, campaign lifecycle with the *)
(* simulated engagement funnel, campaign analytics, and the CSV            *)
(* collections they read and write (marketing/segmentation.py,             *)
(* marketing/campaigns.py, marketing/analytics.py).                        *)
(*                                                                         *)
(* Every CSV access of the code is one step of a caller; a caller's        *)
(* operation is the chain of steps its program counter forces.  Spec lets  *)
(* a single caller run (the single-writer assumption) and SpecQuery adds   *)
(* the metrics queries to its calls; SpecConcCreate lets two independent   *)
(* callers interleave at the file accesses; SpecMatch and SpecMetrics run  *)
(* the segmentation engine and the metrics over seeded files; SpecFaults   *)
(* runs the operations over absent and damaged files, SpecRoundTrip looks  *)
(* created segments up, and SpecAuth puts the marketing routes behind the  *)
(* login of auth/routes.py and auth/forms.py.                              *)
(***************************************************************************)
EXTENDS Integers, Sequences, FiniteSets, TLC

VARIABLES customers_csv, segments_csv, campaigns_csv, events_csv,
          exists, pc, local, direct, session, users_csv

vars == <<customers_csv, segments_csv, campaigns_csv, events_csv,
          exists, pc, local, direct, session, users_csv>>

(***************************************************************************)
(* Bounds of the model.                                                    *)
(***************************************************************************)
\* MaxRecords: segments, campaigns and directly recorded events created in
\* all.  MaxEvents: a send is called only while the event log is shorter.
\* MaxConcRecords: the same as MaxRecords, for two interleaved callers.
MaxRecords == 4
MaxEvents == 5
MaxConcRecords == 3
\* MaxLogLen: the length of the seeded event logs that are enumerated event
\* by event.  MaxCount: the number of events of one type in the seeded logs
\* that are enumerated by their counts.
MaxLogLen == 3
MaxCount == 3
\* MaxCustomers: the number of rows of the seeded customers files of the
\* segmentation runs.
MaxCustomers == 3
\* MaxFaultCustomers: the number of rows of the seeded customers files of
\* the runs over damaged collections.
MaxFaultCustomers == 2
\* MaxRoundTrips: the number of segments created in the runs that look a
\* created segment up.
MaxRoundTrips == 2
\* MaxSeeded: the number of rows of a campaigns file written from outside
\* the program before it starts.
MaxSeeded == 2
\* MaxFunnelLog: the length of the event log from which the random source
\* of the interleaved sends gives no further open, click or conversion.
MaxFunnelLog == 3

Procs == {1, 2}

(***************************************************************************)
(* str(n): the decimal text of a non-negative integer.                     *)
(***************************************************************************)
Digit == <<"0", "1", "2", "3", "4", "5", "6", "7", "8", "9">>

RECURSIVE str(_)
str(n) == IF n < 10 THEN Digit[n + 1] ELSE str(n \div 10) \o Digit[(n % 10) + 1]

(***************************************************************************)
(* Text is a sequence of one-character strings, so that lower() and the    *)
(* substring test of match_customer_rules are computed, not assumed.       *)
(***************************************************************************)
lower_char(c) ==
    CASE c = "A" -> "a"
      [] c = "I" -> "i"
      [] c = "K" -> "k"
      [] c = "N" -> "n"
      [] c = "S" -> "s"
      [] c = "T" -> "t"
      [] OTHER -> c

lower(s) == [i \in 1..Len(s) |-> lower_char(s[i])]

\* Mutant: the needle is looked for at the start of the text only.
str_in_at_start(needle, hay) ==
    /\ Len(needle) <= Len(hay)
    /\ SubSeq(hay, 1, Len(needle)) = needle

\* Python's `needle in hay` on strings.
str_in(needle, hay) ==
    \E i \in 0..(Len(hay) - Len(needle)) :
        SubSeq(hay, i + 1, i + Len(needle)) = needle

(***************************************************************************)
(* Records of the four collections.                                        *)
(***************************************************************************)
RuleKeys == {"min_age", "max_age", "location", "min_total_spent"}

\* The keys whose values the engine converts with int() / float().
NumericKeys == {"min_age", "max_age", "min_total_spent"}

\* A rules value as json.loads returns it.  For a dictionary (shape "dict"),
\* `keys` are the keys present, the other fields their values (0 / empty
\* text for a key that is not present), and non_numeric the numeric keys
\* whose value is text that int() / float() rejects.  The shapes "number" and
\* "list" are payloads that parse to something that is not a dictionary.
NoRules == [keys |-> {}, min_age |-> 0, max_age |-> 0, location |-> <<>>,
            min_total_spent |-> 0, non_numeric |-> {}, shape |-> "dict"]

\* The customers the tests seed (two rows).
Customer1 == [customer_id |-> "1", age |-> 25, location |-> <<"A", "n", "k">>,
              total_spent |-> 1000]
Customer2 == [customer_id |-> "2", age |-> 35, location |-> <<"I", "s", "t">>,
              total_spent |-> 2500]

\* The customers file is never written by the program: it is absent, or
\* holds the seeded rows.
CustomerTables == {<<>>, <<Customer1, Customer2>>}

\* Inputs of the operations.
RuleInputs ==
    { NoRules,
      [NoRules EXCEPT !.keys = {"min_age"}, !.min_age = 30],
      [NoRules EXCEPT !.keys = {"location", "max_age"},
                      !.location = <<"a", "N">>, !.max_age = 20] }
SegmentNameInputs == {"Seg"}
SegmentIdInputs == {"1", "2"}
CampaignIdInputs == {"1", "2"}
CampaignNameInputs == {"Promo"}
EventTypes == <<"sent", "opened", "clicked", "converted">>
DirectEventInputs ==
    { <<"1", "1", "opened">>, <<"9", "1", "sent">> }

\* The campaign ids the metrics queries are asked for: as text, and as an
\* integer.
QueryIdInputs == { [type |-> "str", value |-> "1"], [type |-> "int", value |-> 2] }

(***************************************************************************)
(* json.dumps / json.loads of a rules dictionary: the stored payload is    *)
(* JSON text; a payload that does not parse raises in json.loads.          *)
(***************************************************************************)
\* The payload is the list of the key / value pairs of the dictionary, in
\* the order the keys were set; a numeric value is in `value`, a text in
\* `text`.
KeyOrder == <<"min_age", "max_age", "location", "min_total_spent", "gender">>

json_pair(rules, k) ==
    IF k \in NumericKeys
    THEN IF k \in rules.non_numeric
         THEN [key |-> k, numeric |-> FALSE, value |-> 0, text |-> <<"a", "b", "c">>]
         ELSE [key |-> k, numeric |-> TRUE, value |-> rules[k], text |-> <<>>]
    ELSE IF k = "location"
         THEN [key |-> k, numeric |-> FALSE, value |-> 0, text |-> rules.location]
         ELSE [key |-> k, numeric |-> FALSE, value |-> 0, text |-> <<"x">>]

\* Mutant: the location is not written to the payload.
json_dumps_drops_location(rules) ==
    LET present == SelectSeq(KeyOrder, LAMBDA k : k \in rules.keys \ {"location"})
    IN [parses |-> TRUE, shape |-> rules.shape,
        pairs |-> IF rules.shape = "dict"
                  THEN [i \in 1..Len(present) |-> json_pair(rules, present[i])]
                  ELSE <<>>]

json_dumps(rules) ==
    LET present == SelectSeq(KeyOrder, LAMBDA k : k \in rules.keys)
    IN [parses |-> TRUE, shape |-> rules.shape,
        pairs |-> IF rules.shape = "dict"
                  THEN [i \in 1..Len(present) |-> json_pair(rules, present[i])]
                  ELSE <<>>]

\* A payload that json.loads rejects.
BadJson == [parses |-> FALSE, shape |-> "dict", pairs |-> <<>>]

\* Mutant: a payload that does not parse gives rules that no customer
\* matches.
parse_rules_rejects_all(rules_json) ==
    IF ~rules_json.parses
    THEN [NoRules EXCEPT !.keys = {"min_age"}, !.min_age = 999]
    ELSE IF rules_json.shape # "dict"
    THEN [NoRules EXCEPT !.shape = rules_json.shape]
    ELSE LET pairs == rules_json.pairs
             has(k) == \E i \in 1..Len(pairs) : pairs[i].key = k
             at(k) == pairs[CHOOSE i \in 1..Len(pairs) : pairs[i].key = k]
             num(k) == IF has(k) /\ at(k).numeric THEN at(k).value ELSE 0
         IN [keys |-> {pairs[i].key : i \in 1..Len(pairs)},
             min_age |-> num("min_age"),
             max_age |-> num("max_age"),
             location |-> IF has("location") THEN at("location").text ELSE <<>>,
             min_total_spent |-> num("min_total_spent"),
             non_numeric |-> {k \in NumericKeys : has(k) /\ ~at(k).numeric},
             shape |-> "dict"]

\* load_segments: row['rules'] = json.loads(row['rules_json']), {} on error.
parse_rules(rules_json) ==
    IF ~rules_json.parses THEN NoRules
    ELSE IF rules_json.shape # "dict"
    THEN [NoRules EXCEPT !.shape = rules_json.shape]
    ELSE LET pairs == rules_json.pairs
             has(k) == \E i \in 1..Len(pairs) : pairs[i].key = k
             at(k) == pairs[CHOOSE i \in 1..Len(pairs) : pairs[i].key = k]
             num(k) == IF has(k) /\ at(k).numeric THEN at(k).value ELSE 0
         IN [keys |-> {pairs[i].key : i \in 1..Len(pairs)},
             min_age |-> num("min_age"),
             max_age |-> num("max_age"),
             location |-> IF has("location") THEN at("location").text ELSE <<>>,
             min_total_spent |-> num("min_total_spent"),
             non_numeric |-> {k \in NumericKeys : has(k) /\ ~at(k).numeric},
             shape |-> "dict"]

(***************************************************************************)
(* The session of the one browser that makes the requests (flask.session). *)
(* Only the keys user_id and username are kept: flash() writes the key     *)
(* _flashes alone.  A text that is stripped is a sequence of characters.   *)
(***************************************************************************)
NoSession == [keys |-> {}, user_id |-> <<>>, username |-> <<>>]

\* config.py: DEFAULT_USERNAME, DEFAULT_PASSWORD.
DEFAULT_USERNAME == <<"a", "d", "m", "i", "n">>
DEFAULT_PASSWORD == "password"

\* str.strip(): the text without its leading and trailing blanks.
RECURSIVE strip(_)
strip(text) ==
    IF text = <<>> THEN <<>>
    ELSE IF Head(text) = " " THEN strip(Tail(text))
    ELSE IF text[Len(text)] = " " THEN strip(SubSeq(text, 1, Len(text) - 1))
    ELSE text

(***************************************************************************)
(* Loading the collections: an absent file loads as the empty list.        *)
(***************************************************************************)
\* A customers row whose age or total_spent is text that int() / float()
\* rejects.
is_malformed(row) == "malformed" \in DOMAIN row

\* The rows a loader has appended when the conversion of a row raises and
\* the except clause around the loop ends the reading.
rows_before_error(rows) ==
    LET bad == {i \in 1..Len(rows) : is_malformed(rows[i])}
    IN IF bad = {} THEN rows
       ELSE SubSeq(rows, 1, (CHOOSE i \in bad : \A j \in bad : i <= j) - 1)

load_customers ==
    IF exists.customers THEN rows_before_error(customers_csv) ELSE <<>>

load_segments ==
    IF exists.segments
    THEN [i \in 1..Len(segments_csv) |->
            [segment_id |-> segments_csv[i].segment_id,
             segment_name |-> segments_csv[i].segment_name,
             rules_json |-> segments_csv[i].rules_json,
             rules |-> parse_rules(segments_csv[i].rules_json)]]
    ELSE <<>>

\* Mutant: an absent campaigns file loads as one default draft campaign.
load_campaigns_default_when_absent ==
    IF exists.campaigns THEN campaigns_csv
    ELSE <<[campaign_id |-> "1", name |-> "Promo", segment_id |-> "1",
            start_date |-> "2024-12-01", status |-> "draft",
            subject |-> "Subject", body |-> "Body"]>>

load_campaigns == IF exists.campaigns THEN campaigns_csv ELSE <<>>

load_events == IF exists.events THEN events_csv ELSE <<>>

\* Python's None.
None == [none |-> TRUE]

\* The first index of rows whose field `key` is id, 0 when there is none.
first_index(rows, key, id) ==
    IF \E i \in 1..Len(rows) : rows[i][key] = id
    THEN CHOOSE i \in 1..Len(rows) :
            /\ rows[i][key] = id
            /\ \A j \in 1..(i - 1) : rows[j][key] # id
    ELSE 0

get_segment_by_id(segment_id) ==
    LET segments == load_segments
        i == first_index(segments, "segment_id", segment_id)
    IN IF i = 0 THEN None ELSE segments[i]

get_campaign_by_id(campaign_id) ==
    LET campaigns == load_campaigns
        i == first_index(campaigns, "campaign_id", campaign_id)
    IN IF i = 0 THEN None ELSE campaigns[i]

(***************************************************************************)
(* Segmentation engine.                                                    *)
(***************************************************************************)
\* `'k' in rules and rules['k']` for a numeric key.
rule_set_num(rules, k) ==
    k \in rules.keys /\ (k \in rules.non_numeric \/ rules[k] # 0)

\* customer.get('location', ''): the empty text for a customer without
\* the field.
customer_location(customer) ==
    IF "location" \in DOMAIN customer THEN customer.location ELSE <<>>

\* Mutant: a customer at the threshold itself is rejected.
match_customer_rules_strict(customer, rules) ==
    /\ ~(rule_set_num(rules, "min_age") /\ customer.age <= rules.min_age)
    /\ ~(rule_set_num(rules, "max_age") /\ customer.age >= rules.max_age)
    /\ ~(/\ "location" \in rules.keys
         /\ rules.location # <<>>
         /\ ~str_in(lower(rules.location), lower(customer_location(customer))))
    /\ ~(/\ rule_set_num(rules, "min_total_spent")
         /\ customer.total_spent <= rules.min_total_spent)

\* Mutant: a key that is present constrains, whatever its value.
match_customer_rules_falsy_constrains(customer, rules) ==
    /\ ~("min_age" \in rules.keys /\ customer.age < rules.min_age)
    /\ ~("max_age" \in rules.keys /\ customer.age > rules.max_age)
    /\ ~(/\ "location" \in rules.keys
         /\ ~str_in(lower(rules.location), lower(customer_location(customer))))
    /\ ~(/\ "min_total_spent" \in rules.keys
         /\ customer.total_spent < rules.min_total_spent)

match_customer_rules(customer, rules) ==
    /\ ~(rule_set_num(rules, "min_age") /\ customer.age < rules.min_age)
    /\ ~(rule_set_num(rules, "max_age") /\ customer.age > rules.max_age)
    /\ ~(/\ "location" \in rules.keys
         /\ rules.location # <<>>
         /\ ~str_in(lower(rules.location), lower(customer_location(customer))))
    /\ ~(/\ rule_set_num(rules, "min_total_spent")
         /\ customer.total_spent < rules.min_total_spent)

\* Mutant: the matching customers are collected in reverse order.
filter_customers_by_segment_reversed(customers, rules) ==
    LET picked == SelectSeq(customers, LAMBDA c : match_customer_rules(c, rules))
    IN [i \in 1..Len(picked) |-> picked[Len(picked) + 1 - i]]

\* A customer of a row that ends before the location column: the location
\* is None.
location_is_none(customer) == "short_row" \in DOMAIN customer

\* match_customer_rules raises: `in` on rules that are a number, int() or
\* float() on a value that is not numeric, lower() on a location that is
\* None; each only if no earlier test has returned False.
match_raises(customer, rules) ==
    IF rules.shape # "dict" THEN rules.shape = "number"
    ELSE LET bad(k) == k \in rules.keys /\ k \in rules.non_numeric
             location_set == "location" \in rules.keys /\ rules.location # <<>>
             min_age_ok == ~(rule_set_num(rules, "min_age")
                               /\ customer.age < rules.min_age)
             max_age_ok == ~(rule_set_num(rules, "max_age")
                               /\ customer.age > rules.max_age)
             location_ok ==
                 ~(location_set
                     /\ ~str_in(lower(rules.location),
                                lower(customer_location(customer))))
         IN \/ bad("min_age")
            \/ min_age_ok /\ bad("max_age")
            \/ /\ ~bad("max_age") /\ min_age_ok /\ max_age_ok
               /\ \/ location_set /\ location_is_none(customer)
                  \/ /\ ~(location_set /\ location_is_none(customer))
                     /\ location_ok
                     /\ bad("min_total_spent")

\* filter_customers_by_segment raises: on the first customer for whom
\* match_customer_rules does.
filter_raises(customers, rules) ==
    \E i \in 1..Len(customers) : match_raises(customers[i], rules)

RECURSIVE filter_customers_by_segment(_, _)
filter_customers_by_segment(customers, rules) ==
    IF customers = <<>> THEN <<>>
    ELSE LET rest == filter_customers_by_segment(Tail(customers), rules)
         IN IF match_customer_rules(Head(customers), rules)
            THEN <<Head(customers)>> \o rest
            ELSE rest

\* Mutant: a missing segment selects every customer.
get_campaign_customers_all_on_missing(campaign_id) ==
    LET campaign == get_campaign_by_id(campaign_id)
    IN IF campaign = None THEN <<>>
       ELSE LET segment == get_segment_by_id(campaign.segment_id)
            IN IF segment = None THEN load_customers
               ELSE filter_customers_by_segment(load_customers, segment.rules)

\* Mutant: the segment's rules are not applied.
get_campaign_customers_unfiltered(campaign_id) ==
    LET campaign == get_campaign_by_id(campaign_id)
    IN IF campaign = None THEN <<>>
       ELSE LET segment == get_segment_by_id(campaign.segment_id)
            IN IF segment = None THEN <<>>
               ELSE load_customers

\* get_campaign_customers raises when the filter it ends in raises.
get_campaign_customers_raises(campaign_id) ==
    LET campaign == get_campaign_by_id(campaign_id)
    IN IF campaign = None THEN FALSE
       ELSE LET segment == get_segment_by_id(campaign.segment_id)
            IN IF segment = None THEN FALSE
               ELSE filter_raises(load_customers, segment.rules)

get_campaign_customers(campaign_id) ==
    LET campaign == get_campaign_by_id(campaign_id)
    IN IF campaign = None THEN <<>>
       ELSE LET segment == get_segment_by_id(campaign.segment_id)
            IN IF segment = None THEN <<>>
               ELSE filter_customers_by_segment(load_customers, segment.rules)

(***************************************************************************)
(* Callers.  local[p] holds the arguments and local variables of the       *)
(* operation caller p is running and, once it has returned, its result.    *)
(***************************************************************************)
Blank ==
    [op |-> "none", campaign_id |-> "", customer_id |-> "", event_type |-> "",
     event_id |-> "", row |-> None, customers |-> <<>>, idx |-> 0,
     campaigns |-> <<>>, events0 |-> <<>>, ret |-> 0, ret_id |-> "",
     draft |-> FALSE, again |-> FALSE, args |-> <<>>,
     metrics |-> None, all_metrics |-> <<>>, matched |-> FALSE,
     response |-> ""]

Init ==
    /\ customers_csv \in CustomerTables
    /\ segments_csv = <<>>
    /\ campaigns_csv = <<>>
    /\ events_csv = <<>>
    /\ exists = [customers |-> customers_csv # <<>>, segments |-> FALSE,
                 campaigns |-> FALSE, events |-> FALSE, users |-> FALSE]
    /\ pc = [p \in Procs |-> "idle"]
    /\ local = [p \in Procs |-> Blank]
    /\ direct = 0
    /\ session = NoSession
    /\ users_csv = <<>>

\* Caller p returns: its result replaces its locals.
Return(p, result) ==
    /\ pc' = [pc EXCEPT ![p] = "returned"]
    /\ local' = [local EXCEPT ![p] = result]

\* The operation of caller p ends in an exception that nothing catches.
Raise(p, op) ==
    /\ pc' = [pc EXCEPT ![p] = "raised"]
    /\ local' = [local EXCEPT ![p] = [Blank EXCEPT !.op = op]]

\* Caller p can make a call: it runs no operation.
Ready(p) == pc[p] \in {"idle", "returned", "raised"}

\* The caller lets go of the result, or of the exception, of its last call.
drop_result(p) ==
    /\ pc[p] \in {"returned", "raised"}
    /\ pc' = [pc EXCEPT ![p] = "idle"]
    /\ local' = [local EXCEPT ![p] = Blank]
    /\ UNCHANGED <<session, users_csv, customers_csv, segments_csv, campaigns_csv, events_csv,
                   exists, direct>>

\* The records created so far by create_segment, create_campaign and direct
\* create_event calls, those being written included.
Created ==
    Len(segments_csv) + Len(campaigns_csv) + direct
      + Cardinality({q \in Procs : pc[q] \in {"cs_write", "cc_write"}})

(***************************************************************************)
(* create_segment(segment_name, rules)                                     *)
(***************************************************************************)
new_segment_id(segments) == str(Len(segments) + 1)

segment_row(new_id, segment_name, rules) ==
    [segment_id |-> new_id, segment_name |-> segment_name,
     rules_json |-> json_dumps(rules)]

\* load_segments, new_id and the row: everything before the file is opened.
create_segment_load(p, segment_name, rules) ==
    /\ Ready(p)
    /\ Created < MaxRecords
    /\ pc' = [pc EXCEPT ![p] = "cs_write"]
    /\ local' = [local EXCEPT ![p] =
                   [Blank EXCEPT !.op = "create_segment",
                                 !.args = <<segment_name, rules>>,
                                 !.row = segment_row(new_segment_id(load_segments),
                                                     segment_name, rules)]]
    /\ UNCHANGED <<session, users_csv, customers_csv, segments_csv, campaigns_csv, events_csv,
                   exists, direct>>

\* Mutant: the file is opened for writing, not for appending.
create_segment_write_truncates(p) ==
    /\ pc[p] = "cs_write"
    /\ segments_csv' = <<local[p].row>>
    /\ exists' = [exists EXCEPT !.segments = TRUE]
    /\ Return(p, [Blank EXCEPT !.op = "create_segment",
                               !.args = local[p].args,
                               !.ret_id = local[p].row.segment_id])
    /\ UNCHANGED <<session, users_csv, customers_csv, campaigns_csv, events_csv, direct>>

\* The append of the row (with the header when the file is new).
create_segment_write(p) ==
    /\ pc[p] = "cs_write"
    /\ segments_csv' = Append(segments_csv, local[p].row)
    /\ exists' = [exists EXCEPT !.segments = TRUE]
    /\ Return(p, [Blank EXCEPT !.op = "create_segment",
                               !.args = local[p].args,
                               !.ret_id = local[p].row.segment_id])
    /\ UNCHANGED <<session, users_csv, customers_csv, campaigns_csv, events_csv, direct>>

(***************************************************************************)
(* create_campaign(name, segment_id, start_date, subject, body)            *)
(***************************************************************************)
\* Mutant: the id is the count of existing records, without the + 1.
new_campaign_id_off_by_one(campaigns) == str(Len(campaigns))

new_campaign_id(campaigns) == str(Len(campaigns) + 1)

\* Mutant: subject and body are written to each other's column.
campaign_row_swaps_text(new_id, name, segment_id, start_date, subject, body) ==
    [campaign_id |-> new_id, name |-> name, segment_id |-> segment_id,
     start_date |-> start_date, status |-> "draft", subject |-> body,
     body |-> subject]

campaign_row(new_id, name, segment_id, start_date, subject, body) ==
    [campaign_id |-> new_id, name |-> name, segment_id |-> segment_id,
     start_date |-> start_date, status |-> "draft", subject |-> subject,
     body |-> body]

create_campaign_load(p, name, segment_id) ==
    /\ Ready(p)
    /\ Created < MaxRecords
    /\ pc' = [pc EXCEPT ![p] = "cc_write"]
    /\ local' = [local EXCEPT ![p] =
                   [Blank EXCEPT !.op = "create_campaign",
                                 !.args = <<name, segment_id,
                                            "2024-12-01", "Subject", "Body">>,
                                 !.row = campaign_row(new_campaign_id(load_campaigns),
                                                      name, segment_id,
                                                      "2024-12-01", "Subject", "Body")]]
    /\ UNCHANGED <<session, users_csv, customers_csv, segments_csv, campaigns_csv, events_csv,
                   exists, direct>>

\* Mutant: the file is opened for writing, not for appending.
create_campaign_write_truncates(p) ==
    /\ pc[p] = "cc_write"
    /\ campaigns_csv' = <<local[p].row>>
    /\ exists' = [exists EXCEPT !.campaigns = TRUE]
    /\ Return(p, [Blank EXCEPT !.op = "create_campaign",
                               !.ret_id = local[p].row.campaign_id])
    /\ UNCHANGED <<session, users_csv, customers_csv, segments_csv, events_csv, direct>>

create_campaign_write(p) ==
    /\ pc[p] = "cc_write"
    /\ campaigns_csv' = Append(campaigns_csv, local[p].row)
    /\ exists' = [exists EXCEPT !.campaigns = TRUE]
    /\ Return(p, [Blank EXCEPT !.op = "create_campaign",
                               !.args = local[p].args,
                               !.ret_id = local[p].row.campaign_id])
    /\ UNCHANGED <<session, users_csv, customers_csv, segments_csv, events_csv, direct>>

(***************************************************************************)
(* send_campaign(campaign_id)                                              *)
(***************************************************************************)
\* A caller calls send_campaign.  events0 remembers the event log at the
\* call, `again` that the caller's previous call was a send of the same
\* campaign that found it draft.
send_call(p, campaign_id) ==
    /\ Ready(p)
    /\ Len(events_csv) < MaxEvents
    /\ pc' = [pc EXCEPT ![p] = "send_guard"]
    /\ local' = [local EXCEPT ![p] =
                   [Blank EXCEPT !.op = "send", !.campaign_id = campaign_id,
                                 !.events0 = events_csv,
                                 !.again = /\ local[p].op = "send"
                                           /\ local[p].campaign_id = campaign_id
                                           /\ local[p].draft]]
    /\ UNCHANGED <<session, users_csv, customers_csv, segments_csv, campaigns_csv, events_csv,
                   exists, direct>>

\* Mutant: the guard forgets the status test.
send_guard_passes_any_status(campaign) ==
    campaign # None

\* `not campaign or campaign['status'] != 'draft'` is false.
send_guard_passes(campaign) ==
    campaign # None /\ campaign.status = "draft"

\* The result a send leaves behind.
send_result(l, count) ==
    [Blank EXCEPT !.op = "send", !.campaign_id = l.campaign_id,
                  !.ret = count, !.draft = l.draft, !.again = l.again]

send_guard(p) ==
    /\ pc[p] = "send_guard"
    /\ IF send_guard_passes(get_campaign_by_id(local[p].campaign_id))
       THEN /\ pc' = [pc EXCEPT ![p] = "send_resolve"]
            /\ local' = [local EXCEPT ![p].draft = TRUE]
       ELSE Return(p, send_result(local[p], 0))
    /\ UNCHANGED <<session, users_csv, customers_csv, segments_csv, campaigns_csv, events_csv,
                   exists, direct>>

\* Mutant: the loop starts at the second customer.
send_flow_skips_first(at, idx, n) ==
    CASE at = "resolved" ->
            IF n > 1 THEN [pc |-> "ev_id", idx |-> 2]
                     ELSE [pc |-> "status_read", idx |-> 0]
      [] at = "customer_done" ->
            IF idx < n THEN [pc |-> "ev_id", idx |-> idx + 1]
                       ELSE [pc |-> "status_read", idx |-> idx]
      [] OTHER -> [pc |-> "returned", idx |-> idx]

\* Mutant: update_campaign_status is called before the loop over the
\* customers instead of after it.
send_flow_status_first(at, idx, n) ==
    CASE at = "resolved" -> [pc |-> "status_read", idx |-> 0]
      [] at = "customer_done" ->
            IF idx < n THEN [pc |-> "ev_id", idx |-> idx + 1]
                       ELSE [pc |-> "returned", idx |-> idx]
      [] OTHER ->
            IF n > 0 THEN [pc |-> "ev_id", idx |-> 1]
                     ELSE [pc |-> "returned", idx |-> idx]

\* The order of send_campaign's statements after the audience is resolved:
\* the loop over the customers, then update_campaign_status, then the
\* return.  `at` is the place just left, idx the customer just served, n the
\* audience size; the result is the next place and customer.
send_flow(at, idx, n) ==
    CASE at = "resolved" ->
            IF n > 0 THEN [pc |-> "ev_id", idx |-> 1]
                     ELSE [pc |-> "status_read", idx |-> 0]
      [] at = "customer_done" ->
            IF idx < n THEN [pc |-> "ev_id", idx |-> idx + 1]
                       ELSE [pc |-> "status_read", idx |-> idx]
      [] OTHER -> [pc |-> "returned", idx |-> idx]

\* Caller p, with locals l, moves on from place `at` of send_campaign.
Goto(p, l, at) ==
    LET flow == send_flow(at, l.idx, Len(l.customers))
    IN IF flow.pc = "returned"
       THEN Return(p, send_result(l, Len(l.customers)))
       ELSE /\ pc' = [pc EXCEPT ![p] = flow.pc]
            /\ local' = [local EXCEPT ![p] =
                  IF flow.pc = "ev_id"
                  THEN [l EXCEPT !.idx = flow.idx,
                                 !.customer_id = l.customers[flow.idx].customer_id,
                                 !.event_type = "sent"]
                  ELSE [l EXCEPT !.idx = flow.idx]]

send_resolve(p) ==
    /\ pc[p] = "send_resolve"
    /\ IF get_campaign_customers_raises(local[p].campaign_id)
       THEN Raise(p, "send")
       ELSE Goto(p, [local[p] EXCEPT
                       !.customers = get_campaign_customers(local[p].campaign_id)],
                 "resolved")
    /\ UNCHANGED <<session, users_csv, customers_csv, segments_csv, campaigns_csv, events_csv,
                   exists, direct>>

(***************************************************************************)
(* create_event(campaign_id, customer_id, event_type)                      *)
(***************************************************************************)
\* Mutant: the id counts the existing rows, without the + 1.
generate_event_id_off_by_one ==
    IF ~exists.events THEN "1"
    ELSE IF Len(events_csv) > 0 THEN str(Len(events_csv)) ELSE "1"

generate_event_id ==
    IF ~exists.events THEN "1"
    ELSE IF Len(events_csv) > 0 THEN str(Len(events_csv) + 1) ELSE "1"

\* The row written; the timestamp column is left out of the model.
event_row(event_id, campaign_id, customer_id, event_type) ==
    [event_id |-> event_id, campaign_id |-> campaign_id,
     customer_id |-> customer_id, event_type |-> event_type]

\* Mutant: a click is simulated without the open before it.
funnel_next_skips_open(event_type, hit) ==
    IF ~hit THEN "none"
    ELSE CASE event_type = "sent" -> "clicked"
           [] event_type = "clicked" -> "converted"
           [] OTHER -> "none"

\* The funnel of send_campaign: the event that follows one of event_type
\* when random.random() falls under the threshold (hit), "none" otherwise.
funnel_next(event_type, hit) ==
    IF ~hit THEN "none"
    ELSE CASE event_type = "sent" -> "opened"
           [] event_type = "opened" -> "clicked"
           [] event_type = "clicked" -> "converted"
           [] OTHER -> "none"

\* A caller calls create_event directly (recordEvent).
record_event_call(p, campaign_id, customer_id, event_type) ==
    /\ Ready(p)
    /\ Created < MaxRecords
    /\ direct' = direct + 1
    /\ pc' = [pc EXCEPT ![p] = "ev_id"]
    /\ local' = [local EXCEPT ![p] =
                   [Blank EXCEPT !.op = "record", !.campaign_id = campaign_id,
                                 !.customer_id = customer_id,
                                 !.event_type = event_type]]
    /\ UNCHANGED <<session, users_csv, customers_csv, segments_csv, campaigns_csv, events_csv, exists>>

create_event_id(p) ==
    /\ pc[p] = "ev_id"
    /\ pc' = [pc EXCEPT ![p] = "ev_write"]
    /\ local' = [local EXCEPT ![p].event_id = generate_event_id]
    /\ UNCHANGED <<session, users_csv, customers_csv, segments_csv, campaigns_csv, events_csv,
                   exists, direct>>

\* Mutant: the events file is opened for writing, not for appending.
create_event_write_truncates(p) ==
    /\ pc[p] = "ev_write"
    /\ events_csv' = <<event_row(local[p].event_id, local[p].campaign_id,
                                 local[p].customer_id, local[p].event_type)>>
    /\ exists' = [exists EXCEPT !.events = TRUE]
    /\ IF local[p].op = "record"
       THEN Return(p, [Blank EXCEPT !.op = "record"])
       ELSE \E hit \in BOOLEAN :
              LET next_type == funnel_next(local[p].event_type, hit)
              IN IF next_type # "none"
                 THEN /\ pc' = [pc EXCEPT ![p] = "ev_id"]
                      /\ local' = [local EXCEPT ![p].event_type = next_type]
                 ELSE Goto(p, local[p], "customer_done")
    /\ UNCHANGED <<session, users_csv, customers_csv, segments_csv, campaigns_csv, direct>>

create_event_write(p) ==
    /\ pc[p] = "ev_write"
    /\ events_csv' = Append(events_csv,
                            event_row(local[p].event_id, local[p].campaign_id,
                                      local[p].customer_id, local[p].event_type))
    /\ exists' = [exists EXCEPT !.events = TRUE]
    /\ IF local[p].op = "record"
       THEN Return(p, [Blank EXCEPT !.op = "record"])
       ELSE \E hit \in BOOLEAN :
              LET next_type == funnel_next(local[p].event_type, hit)
              IN IF next_type # "none"
                 THEN /\ pc' = [pc EXCEPT ![p] = "ev_id"]
                      /\ local' = [local EXCEPT ![p].event_type = next_type]
                 ELSE Goto(p, local[p], "customer_done")
    /\ UNCHANGED <<session, users_csv, customers_csv, segments_csv, campaigns_csv, direct>>

(***************************************************************************)
(* update_campaign_status(campaign_id, new_status)                         *)
(***************************************************************************)
\* Mutant: the rows of the other campaigns are written back as draft.
updated_rows_resets_others(rows, campaign_id, new_status) ==
    [i \in 1..Len(rows) |->
        IF rows[i].campaign_id = campaign_id
        THEN [rows[i] EXCEPT !.status = new_status]
        ELSE [rows[i] EXCEPT !.status = "draft"]]

\* Mutant: only the rows of that campaign are written back.
updated_rows_keeps_only_target(rows, campaign_id, new_status) ==
    LET mine == SelectSeq(rows, LAMBDA r : r.campaign_id = campaign_id)
    IN [i \in 1..Len(mine) |-> [mine[i] EXCEPT !.status = new_status]]

\* The rows read, with the status of every row of that id replaced.
updated_rows(rows, campaign_id, new_status) ==
    [i \in 1..Len(rows) |->
        IF rows[i].campaign_id = campaign_id
        THEN [rows[i] EXCEPT !.status = new_status]
        ELSE rows[i]]

update_status_read(p) ==
    /\ pc[p] = "status_read"
    /\ IF ~exists.campaigns
       THEN Goto(p, local[p], "status_done")
       ELSE /\ pc' = [pc EXCEPT ![p] = "status_write"]
            /\ local' = [local EXCEPT ![p].campaigns =
                            updated_rows(campaigns_csv, local[p].campaign_id, "sent")]
    /\ UNCHANGED <<session, users_csv, customers_csv, segments_csv, campaigns_csv, events_csv,
                   exists, direct>>

\* Mutant: the write flips the status in the rows that are in the file at
\* the write, not in the rows that were read.
update_status_write_rereads(p) ==
    /\ pc[p] = "status_write"
    /\ campaigns_csv' = updated_rows(campaigns_csv, local[p].campaign_id, "sent")
    /\ exists' = [exists EXCEPT !.campaigns = TRUE]
    /\ Goto(p, local[p], "status_done")
    /\ UNCHANGED <<session, users_csv, customers_csv, segments_csv, events_csv, direct>>

update_status_write(p) ==
    /\ pc[p] = "status_write"
    /\ campaigns_csv' = local[p].campaigns
    /\ exists' = [exists EXCEPT !.campaigns = TRUE]
    /\ Goto(p, local[p], "status_done")
    /\ UNCHANGED <<session, users_csv, customers_csv, segments_csv, events_csv, direct>>

(***************************************************************************)
(* get_campaign_customers called on its own (resolveAudience).             *)
(***************************************************************************)
resolve_audience(p, campaign_id) ==
    /\ Ready(p)
    /\ IF get_campaign_customers_raises(campaign_id)
       THEN Raise(p, "resolve")
       ELSE Return(p, [Blank EXCEPT !.op = "resolve", !.campaign_id = campaign_id,
                                    !.customers = get_campaign_customers(campaign_id)])
    /\ UNCHANGED <<session, users_csv, customers_csv, segments_csv, campaigns_csv, events_csv,
                   exists, direct>>

(***************************************************************************)
(* Analytics (marketing/analytics.py).                                     *)
(***************************************************************************)
\* A campaign id as a caller passes it: text, or an integer.
py_str(v) == IF v.type = "int" THEN str(v.value) ELSE v.value

\* len([e for e in events if e['event_type'] == event_type])
count_type(events, event_type) ==
    Cardinality({i \in 1..Len(events) : events[i].event_type = event_type})

\* Mutant: without a sent event the count is divided by 1.
rate_unguarded(count, sent_count) ==
    IF sent_count > 0
    THEN (2 * count * 10000 + sent_count) \div (2 * sent_count)
    ELSE count * 10000

\* round((count / sent_count * 100) if sent_count > 0 else 0, 2), in
\* hundredths of a percent: the nearest hundredth.  No count within the
\* bounds of the model puts the quotient halfway between two hundredths.
rate(count, sent_count) ==
    IF sent_count > 0
    THEN (2 * count * 10000 + sent_count) \div (2 * sent_count)
    ELSE 0

\* Mutant: events of every campaign are counted.
campaign_events_unfiltered(events, campaign_id) == events

\* [e for e in events if e['campaign_id'] == str(campaign_id)]
campaign_events_of(events, campaign_id) ==
    SelectSeq(events, LAMBDA e : e.campaign_id = py_str(campaign_id))

\* Mutant: each rate is taken over the count of the stage before it.
metrics_of_stagewise(campaign_id, campaign_events) ==
    LET sent_count == count_type(campaign_events, "sent")
        opened_count == count_type(campaign_events, "opened")
        clicked_count == count_type(campaign_events, "clicked")
        converted_count == count_type(campaign_events, "converted")
    IN [campaign_id |-> campaign_id,
        sent |-> sent_count, opened |-> opened_count,
        clicked |-> clicked_count, converted |-> converted_count,
        open_rate |-> rate(opened_count, sent_count),
        click_rate |-> rate(clicked_count, opened_count),
        conversion_rate |-> rate(converted_count, clicked_count)]

\* The counts and rates get_campaign_metrics computes from the events of
\* the campaign.
metrics_of(campaign_id, campaign_events) ==
    LET sent_count == count_type(campaign_events, "sent")
        opened_count == count_type(campaign_events, "opened")
        clicked_count == count_type(campaign_events, "clicked")
        converted_count == count_type(campaign_events, "converted")
    IN [campaign_id |-> campaign_id,
        sent |-> sent_count, opened |-> opened_count,
        clicked |-> clicked_count, converted |-> converted_count,
        open_rate |-> rate(opened_count, sent_count),
        click_rate |-> rate(clicked_count, sent_count),
        conversion_rate |-> rate(converted_count, sent_count)]

get_campaign_metrics(campaign_id) ==
    metrics_of(campaign_id, campaign_events_of(load_events, campaign_id))

\* Mutant: the entries come in the reverse of the collection order.
get_all_campaign_metrics_reversed ==
    LET campaigns == load_campaigns
        n == Len(campaigns)
    IN [i \in 1..n |->
          LET metrics == get_campaign_metrics(
                             [type |-> "str", value |-> campaigns[n + 1 - i].campaign_id])
          IN [campaign_id |-> metrics.campaign_id,
              sent |-> metrics.sent, opened |-> metrics.opened,
              clicked |-> metrics.clicked, converted |-> metrics.converted,
              open_rate |-> metrics.open_rate,
              click_rate |-> metrics.click_rate,
              conversion_rate |-> metrics.conversion_rate,
              campaign_name |-> campaigns[n + 1 - i].name,
              status |-> campaigns[n + 1 - i].status]]

\* One entry per campaign, in collection order, with its name and status.
get_all_campaign_metrics ==
    LET campaigns == load_campaigns
    IN [i \in 1..Len(campaigns) |->
          LET metrics == get_campaign_metrics(
                             [type |-> "str", value |-> campaigns[i].campaign_id])
          IN [campaign_id |-> metrics.campaign_id,
              sent |-> metrics.sent, opened |-> metrics.opened,
              clicked |-> metrics.clicked, converted |-> metrics.converted,
              open_rate |-> metrics.open_rate,
              click_rate |-> metrics.click_rate,
              conversion_rate |-> metrics.conversion_rate,
              campaign_name |-> campaigns[i].name,
              status |-> campaigns[i].status]]

\* Mutant: only the events of campaigns of the collection are counted.
get_overall_metrics_known_campaigns ==
    LET events == SelectSeq(load_events,
                            LAMBDA e : get_campaign_by_id(e.campaign_id) # None)
        total_sent == count_type(events, "sent")
        total_opened == count_type(events, "opened")
        total_clicked == count_type(events, "clicked")
        total_converted == count_type(events, "converted")
    IN [total_sent |-> total_sent, total_opened |-> total_opened,
        total_clicked |-> total_clicked, total_converted |-> total_converted,
        overall_open_rate |-> rate(total_opened, total_sent),
        overall_click_rate |-> rate(total_clicked, total_sent),
        overall_conversion_rate |-> rate(total_converted, total_sent)]

get_overall_metrics ==
    LET events == load_events
        total_sent == count_type(events, "sent")
        total_opened == count_type(events, "opened")
        total_clicked == count_type(events, "clicked")
        total_converted == count_type(events, "converted")
    IN [total_sent |-> total_sent, total_opened |-> total_opened,
        total_clicked |-> total_clicked, total_converted |-> total_converted,
        overall_open_rate |-> rate(total_opened, total_sent),
        overall_click_rate |-> rate(total_clicked, total_sent),
        overall_conversion_rate |-> rate(total_converted, total_sent)]

\* The three metrics queries, each a single read of the collections.
campaign_metrics_query(p, campaign_id) ==
    /\ Ready(p)
    /\ Return(p, [Blank EXCEPT !.op = "campaign_metrics",
                               !.metrics = get_campaign_metrics(campaign_id)])
    /\ UNCHANGED <<session, users_csv, customers_csv, segments_csv, campaigns_csv, events_csv,
                   exists, direct>>

all_campaign_metrics_query(p) ==
    /\ Ready(p)
    /\ Return(p, [Blank EXCEPT !.op = "all_campaign_metrics",
                               !.all_metrics = get_all_campaign_metrics])
    /\ UNCHANGED <<session, users_csv, customers_csv, segments_csv, campaigns_csv, events_csv,
                   exists, direct>>

overall_metrics_query(p) ==
    /\ Ready(p)
    /\ Return(p, [Blank EXCEPT !.op = "overall_metrics",
                               !.metrics = get_overall_metrics])
    /\ UNCHANGED <<session, users_csv, customers_csv, segments_csv, campaigns_csv, events_csv,
                   exists, direct>>

(***************************************************************************)
(* Specifications.                                                         *)
(***************************************************************************)
Step(p) ==
    \/ \E n \in SegmentNameInputs, r \in RuleInputs : create_segment_load(p, n, r)
    \/ create_segment_write(p)
    \/ \E n \in CampaignNameInputs, s \in SegmentIdInputs : create_campaign_load(p, n, s)
    \/ create_campaign_write(p)
    \/ \E c \in CampaignIdInputs : send_call(p, c)
    \/ send_guard(p)
    \/ send_resolve(p)
    \/ \E e \in DirectEventInputs : record_event_call(p, e[1], e[2], e[3])
    \/ create_event_id(p)
    \/ create_event_write(p)
    \/ update_status_read(p)
    \/ update_status_write(p)
    \/ \E c \in CampaignIdInputs : resolve_audience(p, c)
    \/ drop_result(p)

\* One caller at a time: the single-writer assumption.
Next == Step(1)

Spec == Init /\ [][Next]_vars

\* Two independent callers creating segments and campaigns, interleaved at
\* the file accesses.
ConcCreateStep(p) ==
    \/ /\ Created < MaxConcRecords
       /\ \E n \in SegmentNameInputs, r \in RuleInputs : create_segment_load(p, n, r)
    \/ create_segment_write(p)
    \/ /\ Created < MaxConcRecords
       /\ \E n \in CampaignNameInputs, s \in SegmentIdInputs : create_campaign_load(p, n, s)
    \/ create_campaign_write(p)
    \/ drop_result(p)

ConcCreateNext == \E p \in Procs : ConcCreateStep(p)

SpecConcCreate == Init /\ [][ConcCreateNext]_vars

\* The single writer of Spec, with the metrics queries among its calls.
QueryStep(p) ==
    \/ \E c \in QueryIdInputs : campaign_metrics_query(p, c)
    \/ all_campaign_metrics_query(p)
    \/ overall_metrics_query(p)

QueryNext == Step(1) \/ QueryStep(1)

SpecQuery == Init /\ [][QueryNext]_vars

(***************************************************************************)
(* The segmentation engine over a seeded customers file and one seeded     *)
(* segment, as the tests of segmentation call it.                          *)
(***************************************************************************)
\* A customer whose age and total_spent columns are empty (loaded as 0)
\* and whose location is empty.
Customer3 == [customer_id |-> "3", age |-> 0, location |-> <<>>,
              total_spent |-> 0]
\* A customer of a file without a location column.
Customer4 == [customer_id |-> "4", age |-> 40, total_spent |-> 500]
\* A customer with a negative balance and a location in other case.
Customer5 == [customer_id |-> "5", age |-> 18, location |-> <<"a", "N", "K">>,
              total_spent |-> 0 - 50]

MatchCustomers == {Customer1, Customer2, Customer3, Customer4, Customer5}

MatchCustomerTables ==
    UNION {[1..n -> MatchCustomers] : n \in 0..MaxCustomers}

\* Thresholds: below every value, zero, at a customer's value, between
\* and above.
Thresholds == {0 - 60, 0, 25, 30, 1000, 3000}

\* Rules with a single numeric key.
ThresholdRules ==
    {[NoRules EXCEPT !.keys = {k}, ![k] = a] :
        k \in {"min_age", "max_age", "min_total_spent"}, a \in Thresholds}

\* Rules with a location key only.
LocationRules ==
    {[NoRules EXCEPT !.keys = {"location"}, !.location = l] :
        l \in { <<>>, <<"a", "N">>, <<"n", "k">>, <<"K">>, <<"I", "S", "T">>,
                <<"A", "n", "k", "a">> }}

\* A key of a rules dictionary: absent (0), present and falsy (1), present
\* with a value (2).
RuleShapes == [RuleKeys \cup {"gender"} -> {0, 1, 2}]

\* Rules over all the keys at once, with a key the engine does not know.
CombinedRules ==
    {[NoRules EXCEPT
        !.keys = {k \in DOMAIN f : f[k] # 0},
        !.min_age = IF f["min_age"] = 2 THEN 30 ELSE 0,
        !.max_age = IF f["max_age"] = 2 THEN 30 ELSE 0,
        !.location = IF f["location"] = 2 THEN <<"a", "N">> ELSE <<>>,
        !.min_total_spent = IF f["min_total_spent"] = 2 THEN 1000 ELSE 0] :
        f \in {g \in RuleShapes : g["gender"] # 2}}

MatchRuleInputs == ThresholdRules \cup LocationRules \cup CombinedRules

MatchInit ==
    /\ customers_csv \in MatchCustomerTables
    /\ segments_csv \in {<<segment_row("1", "Seg", r)>> : r \in MatchRuleInputs}
    /\ campaigns_csv = <<>>
    /\ events_csv = <<>>
    /\ exists = [customers |-> customers_csv # <<>>, segments |-> TRUE,
                 campaigns |-> FALSE, events |-> FALSE, users |-> FALSE]
    /\ pc = [p \in Procs |-> "idle"]
    /\ local = [p \in Procs |-> Blank]
    /\ direct = 0
    /\ session = NoSession
    /\ users_csv = <<>>

\* match_customer_rules on the i-th customer and the segment's rules.
match_customer(p, i) ==
    /\ Ready(p)
    /\ i \in 1..Len(load_customers)
    /\ IF match_raises(load_customers[i], get_segment_by_id("1").rules)
       THEN Raise(p, "match")
       ELSE Return(p, [Blank EXCEPT !.op = "match", !.idx = i,
                                    !.matched = match_customer_rules(
                                                    load_customers[i],
                                                    get_segment_by_id("1").rules)])
    /\ UNCHANGED <<session, users_csv, customers_csv, segments_csv, campaigns_csv, events_csv,
                   exists, direct>>

\* filter_customers_by_segment on the customers and the segment's rules.
filter_segment(p) ==
    /\ Ready(p)
    /\ get_segment_by_id("1") # None
    /\ IF filter_raises(load_customers, get_segment_by_id("1").rules)
       THEN Raise(p, "filter")
       ELSE Return(p, [Blank EXCEPT !.op = "filter",
                                    !.customers = filter_customers_by_segment(
                                                      load_customers,
                                                      get_segment_by_id("1").rules)])
    /\ UNCHANGED <<session, users_csv, customers_csv, segments_csv, campaigns_csv, events_csv,
                   exists, direct>>

MatchStep(p) ==
    \/ \E i \in 1..MaxCustomers : match_customer(p, i)
    \/ filter_segment(p)
    \/ drop_result(p)

MatchNext == MatchStep(1)

SpecMatch == MatchInit /\ [][MatchNext]_vars

(***************************************************************************)
(* The operations over collections that are absent or damaged when the     *)
(* program starts: customers rows that do not convert or end early, rule   *)
(* payloads that do not parse, hold text for a number or are no            *)
(* dictionary; and a campaigns file that is removed while the program      *)
(* runs.                                                                   *)
(***************************************************************************)
\* A row whose age is not a number.
MalformedCustomer == [customer_id |-> "8", malformed |-> TRUE]
\* A row that ends after the age column: location None, total_spent 0.
ShortRowCustomer == [customer_id |-> "7", age |-> 30, location |-> <<>>,
                     total_spent |-> 0, short_row |-> TRUE]

FaultCustomers == {Customer1, Customer2, MalformedCustomer, ShortRowCustomer}

\* The customers files: up to MaxFaultCustomers rows, no row twice.
FaultCustomerTables ==
    {t \in UNION {[1..n -> FaultCustomers] : n \in 0..MaxFaultCustomers} :
        \A i, j \in 1..Len(t) : t[i] = t[j] => i = j}

FaultPayloads ==
    { BadJson,
      json_dumps(NoRules),
      json_dumps([NoRules EXCEPT !.keys = {"min_age"}, !.min_age = 30]),
      json_dumps([NoRules EXCEPT !.keys = {"location"}, !.location = <<"a", "N">>]),
      json_dumps([NoRules EXCEPT !.keys = {"min_age"}, !.non_numeric = {"min_age"}]),
      json_dumps([NoRules EXCEPT !.keys = {"min_age", "max_age"}, !.min_age = 30,
                                 !.non_numeric = {"max_age"}]),
      json_dumps([NoRules EXCEPT !.shape = "number"]),
      json_dumps([NoRules EXCEPT !.shape = "list"]) }

FaultInit ==
    /\ customers_csv \in FaultCustomerTables
    /\ segments_csv \in
          {<<>>} \cup {<<[segment_id |-> "1", segment_name |-> "Seg",
                         rules_json |-> j]>> : j \in FaultPayloads}
    /\ campaigns_csv \in
          {<<>>, <<campaign_row("1", "Promo", "1", "2024-12-01", "Subject", "Body")>>}
    /\ events_csv = <<>>
    /\ \E c \in BOOLEAN :
          exists = [customers |-> c \/ customers_csv # <<>>,
                    segments |-> segments_csv # <<>>,
                    campaigns |-> campaigns_csv # <<>>,
                    events |-> FALSE, users |-> FALSE]
    /\ pc = [p \in Procs |-> "idle"]
    /\ local = [p \in Procs |-> Blank]
    /\ direct = 0
    /\ session = NoSession
    /\ users_csv = <<>>

\* The campaigns file is removed from outside the program.
remove_campaigns_file ==
    /\ exists.campaigns
    /\ campaigns_csv' = <<>>
    /\ exists' = [exists EXCEPT !.campaigns = FALSE]
    /\ UNCHANGED <<session, users_csv, customers_csv, segments_csv, events_csv, pc, local, direct>>

FaultStep(p) ==
    \/ /\ ~exists.segments
       /\ \E n \in SegmentNameInputs, r \in RuleInputs : create_segment_load(p, n, r)
    \/ create_segment_write(p)
    \/ /\ ~exists.campaigns
       /\ \E n \in CampaignNameInputs : create_campaign_load(p, n, "1")
    \/ create_campaign_write(p)
    \/ send_call(p, "1")
    \/ send_guard(p)
    \/ send_resolve(p)
    \/ create_event_id(p)
    \/ create_event_write(p)
    \/ update_status_read(p)
    \/ update_status_write(p)
    \/ resolve_audience(p, "1")
    \/ filter_segment(p)
    \/ campaign_metrics_query(p, [type |-> "str", value |-> "1"])
    \/ drop_result(p)

FaultNext == FaultStep(1) \/ remove_campaigns_file

SpecFaults == FaultInit /\ [][FaultNext]_vars

(***************************************************************************)
(* create_segment followed by get_segment_by_id of the returned id, and    *)
(* filter_customers_by_segment with the rules that come back.              *)
(***************************************************************************)
RoundTripRules ==
    LocationRules
      \cup {r \in ThresholdRules : \A k \in r.keys : r[k] \in {0 - 60, 0, 30}}
      \cup { NoRules,
             [NoRules EXCEPT !.keys = RuleKeys],
             [NoRules EXCEPT !.keys = RuleKeys, !.min_age = 20, !.max_age = 40,
                             !.location = <<"n", "K">>, !.min_total_spent = 500],
             [NoRules EXCEPT !.keys = {"min_age", "location"}, !.min_age = 30,
                             !.location = <<"I", "s">>],
             [NoRules EXCEPT !.keys = {"max_age", "min_total_spent", "gender"},
                             !.max_age = 30, !.min_total_spent = 1000] }

RoundTripNames == {"Seg", "VIP"}

RoundTripCustomerTables ==
    { <<Customer1, Customer2, Customer5>>, <<Customer3, Customer4, Customer2>> }

RoundTripInit ==
    /\ customers_csv \in RoundTripCustomerTables
    /\ segments_csv = <<>>
    /\ campaigns_csv = <<>>
    /\ events_csv = <<>>
    /\ exists = [customers |-> TRUE, segments |-> FALSE,
                 campaigns |-> FALSE, events |-> FALSE, users |-> FALSE]
    /\ pc = [p \in Procs |-> "idle"]
    /\ local = [p \in Procs |-> Blank]
    /\ direct = 0
    /\ session = NoSession
    /\ users_csv = <<>>

\* get_segment_by_id of the id that create_segment has just returned, and
\* filter_customers_by_segment with the rules of the segment found.
lookup_created(p) ==
    /\ pc[p] = "returned"
    /\ local[p].op = "create_segment"
    /\ LET segment == get_segment_by_id(local[p].ret_id)
       IN Return(p, [Blank EXCEPT
                       !.op = "lookup",
                       !.args = local[p].args,
                       !.ret_id = local[p].ret_id,
                       !.row = segment,
                       !.customers =
                           IF segment = None THEN <<>>
                           ELSE filter_customers_by_segment(load_customers,
                                                            segment.rules)])
    /\ UNCHANGED <<session, users_csv, customers_csv, segments_csv, campaigns_csv, events_csv,
                   exists, direct>>

RoundTripStep(p) ==
    \/ /\ Len(segments_csv) < MaxRoundTrips
       /\ \E n \in RoundTripNames, r \in RoundTripRules : create_segment_load(p, n, r)
    \/ create_segment_write(p)
    \/ lookup_created(p)
    \/ drop_result(p)

RoundTripNext == RoundTripStep(1)

SpecRoundTrip == RoundTripInit /\ [][RoundTripNext]_vars

(***************************************************************************)
(* The requests of one browser: login, logout and the marketing routes     *)
(* behind login_required (auth/forms.py, auth/routes.py,                   *)
(* marketing/routes.py).  A request is made when the response to the one   *)
(* before it has come.                                                     *)
(***************************************************************************)
\* Mutant: the decorator lets every request through.
login_required_passes_always(s) == TRUE

\* login_required: 'user_id' in session.
login_required_passes(s) == "user_id" \in s.keys

\* authenticate_user: the default pair, or a row of the users file; a file
\* whose rows have no username or password column raises at its first row
\* and the except clause ends the reading.
authenticate_user(username, password) ==
    \/ username = DEFAULT_USERNAME /\ password = DEFAULT_PASSWORD
    \/ /\ exists.users
       /\ \E i \in 1..Len(rows_before_error(users_csv)) :
             /\ users_csv[i].username = username
             /\ users_csv[i].password = password

Bob == <<"b", "o", "b">>
UsernameInputs == { DEFAULT_USERNAME, <<" ">> \o DEFAULT_USERNAME \o <<" ">>,
                    Bob, <<"e", "v", "e">>, <<>> }
PasswordInputs == { DEFAULT_PASSWORD, "secret", "" }
Methods == {"GET", "POST"}

\* The users files: one user, a user and a second password for admin, and
\* a file whose header lacks the columns.
UsersFiles ==
    { <<[username |-> Bob, password |-> "secret"]>>,
      <<[username |-> Bob, password |-> "secret"],
        [username |-> DEFAULT_USERNAME, password |-> "secret"]>>,
      <<[malformed |-> TRUE], [username |-> Bob, password |-> "secret"]>> }

ProtectedRoutes ==
    {"dashboard", "segments_new", "campaigns_new", "send", "analytics"}

AuthInit ==
    /\ customers_csv = <<Customer1>>
    /\ segments_csv = <<>>
    /\ campaigns_csv = <<>>
    /\ events_csv = <<>>
    /\ users_csv \in {<<>>} \cup UsersFiles
    /\ exists = [customers |-> TRUE, segments |-> FALSE,
                 campaigns |-> FALSE, events |-> FALSE,
                 users |-> users_csv # <<>>]
    /\ pc = [p \in Procs |-> "idle"]
    /\ local = [p \in Procs |-> Blank]
    /\ direct = 0
    /\ session = NoSession

\* The response to a request that runs no marketing operation.
Respond(p, op, args, response) ==
    Return(p, [Blank EXCEPT !.op = op, !.args = args, !.response = response])

\* GET or POST /auth/login.
login(p, method, username, password) ==
    /\ Ready(p)
    /\ IF "user_id" \in session.keys
       THEN /\ Respond(p, "login", <<method, username, password>>,
                       "redirect_dashboard")
            /\ UNCHANGED session
       ELSE IF method = "POST" /\ authenticate_user(strip(username), password)
       THEN /\ session' = [keys |-> {"user_id", "username"},
                           user_id |-> strip(username),
                           username |-> strip(username)]
            /\ Respond(p, "login", <<method, username, password>>,
                       "redirect_next")
       ELSE /\ Respond(p, "login", <<method, username, password>>,
                       "login.html")
            /\ UNCHANGED session
    /\ UNCHANGED <<users_csv, customers_csv, segments_csv, campaigns_csv,
                   events_csv, exists, direct>>

\* GET /auth/logout: session.clear().
logout(p) ==
    /\ Ready(p)
    /\ session' = NoSession
    /\ Respond(p, "logout", <<>>, "redirect_login")
    /\ UNCHANGED <<users_csv, customers_csv, segments_csv, campaigns_csv,
                   events_csv, exists, direct>>

\* The handler of /dashboard.
dashboard(p) ==
    /\ Return(p, [Blank EXCEPT
                    !.op = "dashboard",
                    !.response = "dashboard.html",
                    !.metrics =
                       [total_customers |-> Len(load_customers),
                        total_segments |-> Len(load_segments),
                        total_campaigns |-> Len(load_campaigns),
                        active_campaigns |->
                           Len(SelectSeq(load_campaigns,
                                         LAMBDA c : c.status = "sent"))]])
    /\ UNCHANGED <<session, users_csv, customers_csv, segments_csv,
                   campaigns_csv, events_csv, exists, direct>>

\* The handler of /analytics.
analytics(p) ==
    /\ Return(p, [Blank EXCEPT !.op = "analytics",
                               !.response = "analytics.html",
                               !.all_metrics = get_all_campaign_metrics,
                               !.metrics = get_overall_metrics])
    /\ UNCHANGED <<session, users_csv, customers_csv, segments_csv,
                   campaigns_csv, events_csv, exists, direct>>

\* The handler of POST /campaigns/<campaign_id>/send.
send_campaign_route(p, campaign_id) ==
    LET campaign == get_campaign_by_id(campaign_id)
    IN IF campaign = None
       THEN /\ Respond(p, "send_route", <<campaign_id>>, "redirect_campaigns")
            /\ UNCHANGED <<session, users_csv, customers_csv, segments_csv,
                           campaigns_csv, events_csv, exists, direct>>
       ELSE IF campaign.status # "draft"
       THEN /\ Respond(p, "send_route", <<campaign_id>>,
                       "redirect_campaign_detail")
            /\ UNCHANGED <<session, users_csv, customers_csv, segments_csv,
                           campaigns_csv, events_csv, exists, direct>>
       ELSE send_call(p, campaign_id)

\* The handler behind the decorator, for each route.
handler(p, route) ==
    CASE route = "dashboard" -> dashboard(p)
      [] route = "segments_new" ->
            /\ segments_csv = <<>>
            /\ \E r \in RuleInputs : create_segment_load(p, "Seg", r)
      [] route = "campaigns_new" ->
            /\ campaigns_csv = <<>>
            /\ create_campaign_load(p, "Promo", "1")
      [] route = "send" -> send_campaign_route(p, "1")
      [] route = "analytics" -> analytics(p)

\* A request of a route behind login_required.
protected_request(p, route) ==
    /\ Ready(p)
    /\ IF login_required_passes(session)
       THEN handler(p, route)
       ELSE /\ Respond(p, "login_required", <<route>>, "redirect_login")
            /\ UNCHANGED <<session, users_csv, customers_csv, segments_csv,
                           campaigns_csv, events_csv, exists, direct>>

AuthStep(p) ==
    \/ \E m \in Methods, u \in UsernameInputs, w \in PasswordInputs :
          login(p, m, u, w)
    \/ logout(p)
    \/ \E r \in ProtectedRoutes : protected_request(p, r)
    \/ create_segment_write(p)
    \/ create_campaign_write(p)
    \/ send_guard(p)
    \/ send_resolve(p)
    \/ create_event_id(p)
    \/ create_event_write(p)
    \/ update_status_read(p)
    \/ update_status_write(p)

AuthNext == AuthStep(1)

SpecAuth == AuthInit /\ [][AuthNext]_vars

(***************************************************************************)
(* create_campaign on a campaigns file that was written from outside the   *)
(* program, with ids of the writer's choice, all different.                *)
(***************************************************************************)
SeededIds == {"0", "1", "2", "3", "999"}

SeededCampaign(id) ==
    [campaign_id |-> id, name |-> "Campaign", segment_id |-> "1",
     start_date |-> "2024-12-01", status |-> "sent", subject |-> "Subject",
     body |-> "Body"]

SeededCampaignTables ==
    {[i \in 1..Len(ids) |-> SeededCampaign(ids[i])] :
        ids \in {t \in UNION {[1..n -> SeededIds] : n \in 0..MaxSeeded} :
                    \A i, j \in 1..Len(t) : t[i] = t[j] => i = j}}

SeededInit ==
    /\ customers_csv = <<>>
    /\ segments_csv = <<>>
    /\ campaigns_csv \in SeededCampaignTables
    /\ events_csv = <<>>
    /\ exists = [customers |-> FALSE, segments |-> FALSE,
                 campaigns |-> campaigns_csv # <<>>, events |-> FALSE,
                 users |-> FALSE]
    /\ pc = [p \in Procs |-> "idle"]
    /\ local = [p \in Procs |-> Blank]
    /\ direct = 0
    /\ session = NoSession
    /\ users_csv = <<>>

\* get_campaign_by_id of the id that create_campaign has just returned.
lookup_created_campaign(p) ==
    /\ pc[p] = "returned"
    /\ local[p].op = "create_campaign"
    /\ Return(p, [Blank EXCEPT !.op = "lookup_campaign",
                               !.args = local[p].args,
                               !.ret_id = local[p].ret_id,
                               !.row = get_campaign_by_id(local[p].ret_id)])
    /\ UNCHANGED <<session, users_csv, customers_csv, segments_csv,
                   campaigns_csv, events_csv, exists, direct>>

SeededStep(p) ==
    \/ \E n \in CampaignNameInputs, s \in SegmentIdInputs :
          create_campaign_load(p, n, s)
    \/ create_campaign_write(p)
    \/ lookup_created_campaign(p)
    \/ drop_result(p)

SeededNext == SeededStep(1)

SpecSeeded == SeededInit /\ [][SeededNext]_vars

(***************************************************************************)
(* Sends that are interrupted: the process of a caller dies in the middle  *)
(* of send_campaign and another caller sends the campaign afterwards.      *)
(* One caller runs at a time.                                              *)
(***************************************************************************)
CrashInit ==
    /\ customers_csv \in {<<Customer1>>, <<Customer1, Customer2>>}
    /\ segments_csv = <<segment_row("1", "Seg", NoRules)>>
    /\ campaigns_csv = <<campaign_row("1", "Promo", "1", "2024-12-01", "Subject", "Body")>>
    /\ events_csv = <<>>
    /\ exists = [customers |-> TRUE, segments |-> TRUE, campaigns |-> TRUE,
                 events |-> FALSE, users |-> FALSE]
    /\ pc = [p \in Procs |-> "idle"]
    /\ local = [p \in Procs |-> Blank]
    /\ direct = 0
    /\ session = NoSession
    /\ users_csv = <<>>

\* The places of send_campaign between its call and its return.
SendPlaces ==
    {"send_guard", "send_resolve", "ev_id", "ev_write", "status_read",
     "status_write"}

\* The process of caller p dies where it stands; what it wrote stays.
crash(p) ==
    /\ pc[p] \in SendPlaces
    /\ pc' = [pc EXCEPT ![p] = "crashed"]
    /\ UNCHANGED <<session, users_csv, customers_csv, segments_csv,
                   campaigns_csv, events_csv, exists, local, direct>>

CrashStep(p) ==
    \/ /\ \A q \in Procs \ {p} : pc[q] \notin SendPlaces
       /\ send_call(p, "1")
    \/ send_guard(p)
    \/ send_resolve(p)
    \/ create_event_id(p)
    \/ create_event_write(p)
    \/ update_status_read(p)
    \/ update_status_write(p)
    \/ crash(p)
    \/ drop_result(p)

CrashNext == \E p \in Procs : CrashStep(p)

SpecCrash == CrashInit /\ [][CrashNext]_vars

(***************************************************************************)
(* Two independent callers send the same campaign, interleaved at the file *)
(* accesses.                                                               *)
(***************************************************************************)
\* Each caller sends once; random.random() gives no further funnel event
\* once the log holds MaxFunnelLog events.
ConcSendStep(p) ==
    \/ /\ pc[p] = "idle"
       /\ send_call(p, "1")
    \/ send_guard(p)
    \/ send_resolve(p)
    \/ create_event_id(p)
    \/ /\ create_event_write(p)
       /\ (Len(events_csv) >= MaxFunnelLog)
             => (pc'[p] # "ev_id" \/ local'[p].event_type = "sent")
    \/ update_status_read(p)
    \/ update_status_write(p)

ConcSendNext == \E p \in Procs : ConcSendStep(p)

SpecConcSend == CrashInit /\ [][ConcSendNext]_vars

(***************************************************************************)
(* Two independent callers, one in update_campaign_status, the other       *)
(* creating or sending a campaign between the read and the write of the    *)
(* rewrite.                                                                *)
(***************************************************************************)
ConcStatusInit ==
    /\ customers_csv = <<Customer1>>
    /\ segments_csv = <<segment_row("1", "Seg", NoRules)>>
    /\ campaigns_csv =
          << campaign_row("1", "Promo", "1", "2024-12-01", "Subject", "Body"),
             campaign_row("2", "Promo", "1", "2024-12-01", "Subject", "Body") >>
    /\ events_csv = <<>>
    /\ exists = [customers |-> TRUE, segments |-> TRUE, campaigns |-> TRUE,
                 events |-> FALSE, users |-> FALSE]
    /\ pc = [p \in Procs |-> "idle"]
    /\ local = [p \in Procs |-> Blank]
    /\ direct = 0
    /\ session = NoSession
    /\ users_csv = <<>>

\* The random source gives no open: a send writes its sent events only.
ConcStatusStep(p) ==
    \/ \E c \in CampaignIdInputs : send_call(p, c)
    \/ send_guard(p)
    \/ send_resolve(p)
    \/ create_event_id(p)
    \/ /\ create_event_write(p)
       /\ pc'[p] # "ev_id"
    \/ update_status_read(p)
    \/ update_status_write(p)
    \/ /\ Len(campaigns_csv) < MaxConcRecords
       /\ \E n \in CampaignNameInputs : create_campaign_load(p, n, "1")
    \/ create_campaign_write(p)
    \/ drop_result(p)

ConcStatusNext == \E p \in Procs : ConcStatusStep(p)

SpecConcStatus == ConcStatusInit /\ [][ConcStatusNext]_vars

(***************************************************************************)
(* The metrics queries over event logs and campaigns that are already in   *)
(* the files when the program starts, as the tests of analytics seed them. *)
(***************************************************************************)
\* The events of the short seeded logs: two campaigns, and a type that the
\* metrics do not know.
SeedEvents ==
    {<<c, t>> : c \in {"1", "2"}, t \in {"sent", "opened", "bounced"}}

\* Every log of at most MaxLogLen seed events.
ShortLogs ==
    UNION { { [i \in 1..n |-> event_row(str(i), f[i][1], "1", f[i][2])] :
                f \in [1..n -> SeedEvents] } : n \in 0..MaxLogLen }

\* A log of campaign 1 with the given number of events of each type.
CountLog(sent, opened, clicked, converted) ==
    [i \in 1..(sent + opened + clicked + converted) |->
        IF i <= sent THEN event_row(str(i), "1", str(i), "sent")
        ELSE IF i <= sent + opened
             THEN event_row(str(i), "1", str(i - sent), "opened")
        ELSE IF i <= sent + opened + clicked
             THEN event_row(str(i), "1", str(i - sent - opened), "clicked")
        ELSE event_row(str(i), "1", str(i - sent - opened - clicked), "converted")]

CountLogs ==
    {CountLog(s, o, c, v) : s \in 0..MaxCount, o \in 0..MaxCount,
                            c \in 0..MaxCount, v \in 0..MaxCount}

\* The log of the analytics tests: 10 sent, 7 opened, 4 clicked, 2 converted.
TestLog == CountLog(10, 7, 4, 2)

\* The campaigns the analytics tests seed, and a second one after it.
TestCampaign1 == campaign_row("1", "Test Campaign 1", "1", "2024-12-01", "Test", "Test")
TestCampaign2 == campaign_row("2", "Test Campaign 2", "1", "2024-12-01", "Test", "Test")
SeedCampaigns ==
    { <<>>,
      <<[TestCampaign1 EXCEPT !.status = "sent"]>>,
      <<[TestCampaign1 EXCEPT !.status = "sent"], TestCampaign2>> }

MetricsIdInputs ==
    { [type |-> "str", value |-> "1"], [type |-> "int", value |-> 1],
      [type |-> "str", value |-> "2"] }

MetricsInit ==
    /\ customers_csv = <<>>
    /\ segments_csv = <<>>
    /\ campaigns_csv \in SeedCampaigns
    /\ events_csv \in ShortLogs \cup CountLogs \cup {TestLog}
    /\ exists = [customers |-> FALSE, segments |-> FALSE,
                 campaigns |-> campaigns_csv # <<>>,
                 events |-> events_csv # <<>>, users |-> FALSE]
    /\ pc = [p \in Procs |-> "idle"]
    /\ local = [p \in Procs |-> Blank]
    /\ direct = 0
    /\ session = NoSession
    /\ users_csv = <<>>

MetricsStep(p) ==
    \/ \E c \in MetricsIdInputs : campaign_metrics_query(p, c)
    \/ all_campaign_metrics_query(p)
    \/ overall_metrics_query(p)
    \/ analytics(p)
    \/ drop_result(p)

MetricsNext == MetricsStep(1)

SpecMetrics == MetricsInit /\ [][MetricsNext]_vars

(***************************************************************************)
(* Properties.                                                             *)
(***************************************************************************)
\* Caller p runs an operation (it has called and not yet returned).
Running(p) == pc[p] \notin {"idle", "returned"}

\* Caller p returns from send_campaign in this step.
SendReturns(p) ==
    /\ local[p].op = "send"
    /\ Running(p)
    /\ pc'[p] = "returned"

\* The rows of a collection that carry an id.
RowsOf(rows, key, id) == {i \in 1..Len(rows) : rows[i][key] = id}

\* Every campaign row of that id has that status (and there is one).
HasStatus(rows, campaign_id, status) ==
    /\ RowsOf(rows, "campaign_id", campaign_id) # {}
    /\ \A i \in RowsOf(rows, "campaign_id", campaign_id) : rows[i].status = status

\* Two rows of the collection carry the same id.
DuplicateId(rows, key) ==
    \E i, j \in 1..Len(rows) : i # j /\ rows[i][key] = rows[j][key]

IsSentEvent(e) == e.event_type = "sent"

\* The decimal text of 1..24, written out.
Decimal == <<"1", "2", "3", "4", "5", "6", "7", "8", "9", "10", "11", "12",
             "13", "14", "15", "16", "17", "18", "19", "20", "21", "22",
             "23", "24">>

\* C1: a caller's second send in a row of a campaign that the first send
\* found draft returns 0, and the event log at its return is the log the
\* first send left.
C1_SecondSendIsNoOp ==
    [][\A p \in Procs :
         (SendReturns(p) /\ local[p].again)
           => (local'[p].ret = 0 /\ events_csv' = local[p].events0)]_vars

\* C1, reached: a second send in a row has returned, after a first send whose funnel ran to a converted event.
C1_Witness ==
    \E p \in Procs :
        /\ pc[p] = "returned"
        /\ local[p].op = "send"
        /\ local[p].again
        /\ direct = 0
        /\ \E i \in 1..Len(events_csv) :
              /\ events_csv[i].campaign_id = local[p].campaign_id
              /\ events_csv[i].event_type = "converted"

\* C2: every campaign status is draft or sent, a campaign is draft when it
\* is created, and a campaign that is sent stays the same row and stays
\* sent in every later step.
C2_StatusMachine ==
    [][/\ \A i \in 1..Len(campaigns_csv') :
            campaigns_csv'[i].status \in {"draft", "sent"}
       /\ \A i \in (Len(campaigns_csv) + 1)..Len(campaigns_csv') :
            campaigns_csv'[i].status = "draft"
       /\ \A i \in 1..Len(campaigns_csv) :
            campaigns_csv[i].status = "sent"
              => /\ i <= Len(campaigns_csv')
                 /\ campaigns_csv'[i] = campaigns_csv[i]]_vars

\* C2, reached: two campaigns are both sent, with a segment, a directly recorded event and events of the second campaign in the store.
C2_Witness ==
    /\ Len(campaigns_csv) = 2
    /\ campaigns_csv[1].status = "sent"
    /\ campaigns_csv[2].status = "sent"
    /\ Len(segments_csv) = 1
    /\ direct = 1
    /\ \E i \in 1..Len(events_csv) : events_csv[i].campaign_id = "2"

\* C3: when send reaches its guard and no campaign of that id is draft
\* (none exists, or it is not draft), the send returns 0 at that step and
\* the four collections are as they were.
C3_GuardedSendChangesNothing ==
    [][\A p \in Procs :
         (/\ pc[p] = "send_guard"
          /\ pc'[p] # "send_guard"
          /\ \A i \in RowsOf(campaigns_csv, "campaign_id", local[p].campaign_id) :
                campaigns_csv[i].status # "draft")
           => /\ pc'[p] = "returned"
              /\ local'[p].ret = 0
              /\ UNCHANGED <<session, users_csv, customers_csv, segments_csv, campaigns_csv,
                             events_csv, exists>>]_vars

\* C3, reached: a send of a campaign that is already sent has returned 0, with events in the log.
C3_Witness ==
    \E p \in Procs :
        /\ pc[p] = "returned"
        /\ local[p].op = "send"
        /\ ~local[p].draft
        /\ local[p].ret = 0
        /\ HasStatus(campaigns_csv, local[p].campaign_id, "sent")
        /\ events_csv # <<>>

\* C4: with no direct create_event call, every opened event follows a sent
\* event of the same campaign and customer in the log, every clicked event
\* an opened one, every converted event a clicked one.
C4_FunnelOrder ==
    direct = 0 =>
      \A j \in 1..Len(events_csv) :
        \A k \in 2..4 :
          events_csv[j].event_type = EventTypes[k]
            => \E i \in 1..(j - 1) :
                  /\ events_csv[i].campaign_id = events_csv[j].campaign_id
                  /\ events_csv[i].customer_id = events_csv[j].customer_id
                  /\ events_csv[i].event_type = EventTypes[k - 1]

\* C4, reached: a send alone has taken the second customer through the funnel to converted.
C4_Witness ==
    /\ direct = 0
    /\ \E j \in 1..Len(events_csv) :
          /\ events_csv[j].event_type = "converted"
          /\ events_csv[j].customer_id = "2"

\* C5: a send that found its campaign draft returns the size of the
\* campaign's audience; the events it appended hold one sent event of that
\* campaign per audience customer, in audience order, whatever else the
\* funnel added, and the events before the call are untouched.
C5_SendCountsAudience ==
    [][\A p \in Procs :
         (SendReturns(p) /\ local[p].draft)
           => LET audience == get_campaign_customers(local[p].campaign_id)
                  before == Len(local[p].events0)
                  appended == SubSeq(events_csv', before + 1, Len(events_csv'))
                  sent == SelectSeq(appended, IsSentEvent)
              IN /\ local'[p].ret = Len(audience)
                 /\ SubSeq(events_csv', 1, before) = local[p].events0
                 /\ Len(sent) = Len(audience)
                 /\ \A i \in 1..Len(sent) :
                       /\ sent[i].customer_id = audience[i].customer_id
                       /\ sent[i].campaign_id = local[p].campaign_id]_vars

\* C5, reached: a send to two customers has returned 2 after appending five events.
C5_Witness ==
    \E p \in Procs :
        /\ pc[p] = "returned"
        /\ local[p].op = "send"
        /\ local[p].draft
        /\ local[p].ret = 2
        /\ direct = 0
        /\ Len(events_csv) = 5

\* The campaign of that id exists and its segment_id matches no segment.
Dangling(campaign_id) ==
    /\ RowsOf(campaigns_csv, "campaign_id", campaign_id) # {}
    /\ \A i \in RowsOf(campaigns_csv, "campaign_id", campaign_id) :
          RowsOf(segments_csv, "segment_id", campaigns_csv[i].segment_id) = {}

\* C6 as claimed: a send of a draft campaign whose segment_id matches no
\* segment returns 0 and leaves the campaign draft.
C6_DanglingSendStaysDraft ==
    [][\A p \in Procs :
         (SendReturns(p) /\ local[p].draft /\ Dangling(local[p].campaign_id))
           => /\ local'[p].ret = 0
              /\ HasStatus(campaigns_csv', local[p].campaign_id, "draft")]_vars

\* C6, amended: a campaign whose segment_id matches no segment resolves to
\* the empty audience; a send of it while draft returns 0, appends no
\* event, and sets its status to sent.
C6_DanglingSendFlipsStatus ==
    [][\A p \in Procs :
         (SendReturns(p) /\ local[p].draft /\ Dangling(local[p].campaign_id))
           => /\ get_campaign_customers(local[p].campaign_id) = <<>>
              /\ local'[p].ret = 0
              /\ events_csv' = local[p].events0
              /\ HasStatus(campaigns_csv', local[p].campaign_id, "sent")]_vars

\* C6, reached: a send of a draft campaign with a dangling segment_id has returned 0 and the campaign is sent, with customers and a segment in the store.
C6_Witness ==
    \E p \in Procs :
        /\ pc[p] = "returned"
        /\ local[p].op = "send"
        /\ local[p].draft
        /\ local[p].ret = 0
        /\ Dangling(local[p].campaign_id)
        /\ HasStatus(campaigns_csv, local[p].campaign_id, "sent")
        /\ customers_csv # <<>>
        /\ segments_csv # <<>>

\* C7: get_campaign_customers returns the empty list when no campaign has
\* the id, the empty list when no segment has the campaign's segment_id,
\* and otherwise the customers filtered by that segment's rules.
C7_ResolveAudience ==
    \A p \in Procs :
      (pc[p] = "returned" /\ local[p].op = "resolve")
        => LET cs == RowsOf(campaigns_csv, "campaign_id", local[p].campaign_id)
           IN IF cs = {} THEN local[p].customers = <<>>
              ELSE \A c \in cs :
                     LET ss == RowsOf(segments_csv, "segment_id",
                                      campaigns_csv[c].segment_id)
                     IN IF ss = {} THEN local[p].customers = <<>>
                        ELSE \A g \in ss :
                               local[p].customers =
                                 filter_customers_by_segment(
                                   customers_csv, parse_rules(segments_csv[g].rules_json))

\* C7, reached: a call has resolved an audience of one customer out of two, while a campaign with a dangling segment_id exists.
C7_Witness ==
    /\ \E p \in Procs :
          /\ pc[p] = "returned"
          /\ local[p].op = "resolve"
          /\ Len(local[p].customers) = 1
    /\ \E c \in CampaignIdInputs : Dangling(c)

\* C8: under a single writer the k-th campaign has id "k" and the k-th
\* segment has id "k", so the ids of a collection are pairwise distinct.
C8_SequentialIds ==
    /\ \A k \in 1..Len(campaigns_csv) : campaigns_csv[k].campaign_id = Decimal[k]
    /\ \A k \in 1..Len(segments_csv) : segments_csv[k].segment_id = Decimal[k]
    /\ ~DuplicateId(campaigns_csv, "campaign_id")
    /\ ~DuplicateId(segments_csv, "segment_id")

\* C8, reached: two campaigns and two segments have been created.
C8_Witness ==
    /\ Len(campaigns_csv) = 2
    /\ Len(segments_csv) = 2

\* C9: when a caller appends a campaign (a segment) and the collection has
\* grown since the caller read its length, the collection then holds two
\* records of the same id.
C9_StaleAppendDuplicatesId ==
    [][\A p \in Procs :
         /\ (/\ pc[p] = "cc_write"
             /\ pc'[p] = "returned"
             /\ local[p].row.campaign_id # Decimal[Len(campaigns_csv) + 1])
              => DuplicateId(campaigns_csv', "campaign_id")
         /\ (/\ pc[p] = "cs_write"
             /\ pc'[p] = "returned"
             /\ local[p].row.segment_id # Decimal[Len(segments_csv) + 1])
              => DuplicateId(segments_csv', "segment_id")]_vars

\* C9, reached: both callers have returned from create_campaign and two campaigns carry the same id.
C9_Witness ==
    /\ \E i, j \in 1..Len(campaigns_csv) :
          /\ i < j
          /\ campaigns_csv[i].campaign_id = campaigns_csv[j].campaign_id
    /\ \A p \in Procs : pc[p] = "returned" /\ local[p].op = "create_campaign"

\* C10: while a send that passed the guard has not returned, its campaign
\* is draft; the step that makes the campaign sent is the send's return and
\* appends no event.
C10_StatusFlipIsLast ==
    [][\A p \in Procs :
         /\ (local'[p].op = "send" /\ local'[p].draft /\ pc'[p] # "returned")
              => HasStatus(campaigns_csv', local'[p].campaign_id, "draft")
         /\ (/\ local[p].op = "send"
             /\ Running(p)
             /\ HasStatus(campaigns_csv, local[p].campaign_id, "draft")
             /\ ~HasStatus(campaigns_csv', local[p].campaign_id, "draft"))
              => /\ pc'[p] = "returned"
                 /\ events_csv' = events_csv
                 /\ HasStatus(campaigns_csv', local[p].campaign_id, "sent")]_vars

\* C10, reached: a send has appended the events of its first customer and is about to serve the second, the campaign still draft.
C10_Witness ==
    \E p \in Procs :
        /\ pc[p] = "ev_id"
        /\ local[p].op = "send"
        /\ local[p].idx = 2
        /\ Len(events_csv) > Len(local[p].events0) + 1
        /\ HasStatus(campaigns_csv, local[p].campaign_id, "draft")

\* C11: in every step of every operation (create_segment, create_campaign,
\* send, create_event, the metrics queries) the event log before the step
\* is a prefix of the log after it, the events file once written stays, and
\* the log grows only by one event, in a write of create_event called by a
\* send or directly.
C11_EventsAppendOnly ==
    [][/\ Len(events_csv) <= Len(events_csv')
       /\ SubSeq(events_csv', 1, Len(events_csv)) = events_csv
       /\ exists.events => exists'.events
       /\ events_csv' # events_csv
            => /\ Len(events_csv') = Len(events_csv) + 1
               /\ \E p \in Procs :
                     /\ pc[p] = "ev_write"
                     /\ local[p].op \in {"send", "record"}]_vars

\* C11, reached: an overall metrics query has returned over a log that a direct create_event and a send both appended to, with a segment and a campaign created.
C11_Witness ==
    /\ \E p \in Procs :
          /\ pc[p] = "returned"
          /\ local[p].op = "overall_metrics"
          /\ local[p].metrics.total_sent >= 2
    /\ direct >= 1
    /\ Len(events_csv) >= 4
    /\ segments_csv # <<>>
    /\ \E i \in 1..Len(campaigns_csv) : campaigns_csv[i].status = "sent"

\* C12: under a single writer, starting without an events file, the i-th
\* event of the log has the decimal text of i as its id, whether a send or a
\* direct create_event appended it; the ids are pairwise distinct.
C12_EventIdsSequential ==
    /\ \A i \in 1..Len(events_csv) : events_csv[i].event_id = Decimal[i]
    /\ ~DuplicateId(events_csv, "event_id")

\* C12, reached: the log holds ten events or more, from two sends and a direct create_event.
C12_Witness ==
    /\ Len(events_csv) >= 10
    /\ direct >= 1
    /\ \E i, j \in 1..Len(events_csv) :
          /\ events_csv[i].campaign_id = "1"
          /\ events_csv[j].campaign_id = "2"
          /\ events_csv[i].event_type = "sent"
          /\ events_csv[j].event_type = "sent"

\* Two campaign rows agree in every field but the status.
SameButStatus(a, b) == [a EXCEPT !.status = "x"] = [b EXCEPT !.status = "x"]

\* C13: every step of a send that passed its guard leaves the campaign
\* collection with the same length and order, every row of another id as it
\* was, the rows of its own id changed in the status at most, and the
\* segments and customers as they were; at its return its campaign is sent.
C13_SendFrame ==
    [][\A p \in Procs :
         (local[p].op = "send" /\ local[p].draft /\ Running(p))
           => /\ Len(campaigns_csv') = Len(campaigns_csv)
              /\ \A i \in 1..Len(campaigns_csv) :
                    IF campaigns_csv[i].campaign_id = local[p].campaign_id
                    THEN SameButStatus(campaigns_csv'[i], campaigns_csv[i])
                    ELSE campaigns_csv'[i] = campaigns_csv[i]
              /\ segments_csv' = segments_csv
              /\ customers_csv' = customers_csv
              /\ exists'.segments = exists.segments
              /\ exists'.customers = exists.customers
              /\ pc'[p] = "returned"
                    => HasStatus(campaigns_csv', local[p].campaign_id, "sent")]_vars

\* C13, reached: a send of the second campaign to one customer or more has returned, the first campaign still draft, with segments in the store.
C13_Witness ==
    \E p \in Procs :
        /\ pc[p] = "returned"
        /\ local[p].op = "send"
        /\ local[p].draft
        /\ local[p].ret >= 1
        /\ local[p].campaign_id = "2"
        /\ Len(campaigns_csv) = 2
        /\ campaigns_csv[1].status = "draft"
        /\ campaigns_csv[2].status = "sent"
        /\ segments_csv # <<>>

\* The campaign that create_campaign is to store for its arguments.
CreatedCampaign(new_id, args) ==
    [campaign_id |-> new_id, name |-> args[1], segment_id |-> args[2],
     start_date |-> args[3], status |-> "draft", subject |-> args[4],
     body |-> args[5]]

\* C14: the write of create_campaign appends one row and leaves the rows
\* before it as they were; the row holds the five arguments of the call,
\* status draft and the id returned; and once create_campaign has returned
\* an id to the single writer, a lookup of that id finds that row.
C14_CreateCampaign ==
    /\ [][\A p \in Procs :
            (pc[p] = "cc_write" /\ pc'[p] = "returned")
              => /\ Len(campaigns_csv') = Len(campaigns_csv) + 1
                 /\ SubSeq(campaigns_csv', 1, Len(campaigns_csv)) = campaigns_csv
                 /\ campaigns_csv'[Len(campaigns_csv')] =
                       CreatedCampaign(local'[p].ret_id, local[p].args)]_vars
    /\ [](\A p \in Procs :
            (pc[p] = "returned" /\ local[p].op = "create_campaign")
              => get_campaign_by_id(local[p].ret_id) =
                   CreatedCampaign(local[p].ret_id, local[p].args))

\* C14, reached: a third campaign has been created and its id returned, after a send of an earlier campaign.
C14_Witness ==
    \E p \in Procs :
        /\ pc[p] = "returned"
        /\ local[p].op = "create_campaign"
        /\ local[p].ret_id = "3"
        /\ Len(campaigns_csv) = 3
        /\ \E i \in 1..2 : campaigns_csv[i].status = "sent"

\* Caller p has the result of a match_customer_rules call.
MatchResult(p) == pc[p] = "returned" /\ local[p].op = "match"

\* The customer that call was about, and the rules of the seeded segment.
MatchedCustomer(p) == customers_csv[local[p].idx]
SeededRules == parse_rules(segments_csv[1].rules_json)

\* C15 as claimed: for every threshold a, 0 included, a rule-set with the
\* single key min_age (max_age, min_total_spent) matches a customer exactly
\* when age >= a (age <= a, total_spent >= a).
C15_ThresholdsAsClaimed ==
    \A p \in Procs :
      MatchResult(p) =>
        LET c == MatchedCustomer(p)
            r == SeededRules
        IN /\ r.keys = {"min_age"} => (local[p].matched <=> c.age >= r.min_age)
           /\ r.keys = {"max_age"} => (local[p].matched <=> c.age <= r.max_age)
           /\ r.keys = {"min_total_spent"}
                => (local[p].matched <=> c.total_spent >= r.min_total_spent)

\* C15, amended: for every threshold a other than 0, values below every age
\* included, the single-key rule-set matches exactly when age >= a (age <= a,
\* total_spent >= a); with the threshold 0 the key constrains nothing and
\* every customer matches.
C15_ThresholdsNonZero ==
    \A p \in Procs :
      MatchResult(p) =>
        LET c == MatchedCustomer(p)
            r == SeededRules
        IN /\ r.keys = {"min_age"}
                => (local[p].matched <=> (r.min_age = 0 \/ c.age >= r.min_age))
           /\ r.keys = {"max_age"}
                => (local[p].matched <=> (r.max_age = 0 \/ c.age <= r.max_age))
           /\ r.keys = {"min_total_spent"}
                => (local[p].matched <=>
                      (r.min_total_spent = 0 \/ c.total_spent >= r.min_total_spent))

\* C15, reached: a customer of age 25 has been matched against the rule-set with max_age 0 alone, and matches.
C15_Witness ==
    \E p \in Procs :
        /\ MatchResult(p)
        /\ SeededRules.keys = {"max_age"}
        /\ SeededRules.max_age = 0
        /\ MatchedCustomer(p).age = 25
        /\ local[p].matched

\* Lower case, letter by letter, as a table.
LowerTable ==
    [c \in {"A", "I", "K", "N", "S", "T", "a", "i", "k", "n", "s", "t"} |->
        IF c \in {"A", "a"} THEN "a"
        ELSE IF c \in {"I", "i"} THEN "i"
        ELSE IF c \in {"K", "k"} THEN "k"
        ELSE IF c \in {"N", "n"} THEN "n"
        ELSE IF c \in {"S", "s"} THEN "s"
        ELSE "t"]

Lowered(text) == [i \in 1..Len(text) |-> LowerTable[text[i]]]

\* The needle occurs in the text as a run of neighbouring letters.
Occurs(needle, text) ==
    \E start \in 1..(Len(text) + 1) :
        \A j \in 1..Len(needle) :
            /\ start + j - 1 <= Len(text)
            /\ text[start + j - 1] = needle[j]

\* The location of a customer, empty for a customer without the field.
LocationOf(c) == IF "location" \in DOMAIN c THEN c.location ELSE <<>>

\* The key is present in the rules with a truthy value.
Truthy(r, k) ==
    /\ k \in r.keys
    /\ IF k = "location" THEN r.location # <<>> ELSE r[k] # 0

\* The customer violates the constraint of the key.
Violates(c, r, k) ==
    CASE k = "min_age" -> c.age < r.min_age
      [] k = "max_age" -> c.age > r.max_age
      [] k = "location" -> ~Occurs(Lowered(r.location), Lowered(LocationOf(c)))
      [] k = "min_total_spent" -> c.total_spent < r.min_total_spent

\* C16: a customer matches a rule-set exactly when it violates none of the
\* constraints of the four keys that are present with a truthy value; a key
\* that is absent, 0 or the empty text constrains nothing, and a key other
\* than the four changes nothing.
C16_MatchIsConjunction ==
    \A p \in Procs :
      MatchResult(p) =>
        LET c == MatchedCustomer(p)
            r == SeededRules
        IN /\ local[p].matched <=>
                \A k \in RuleKeys : Truthy(r, k) => ~Violates(c, r, k)
           /\ (\A k \in RuleKeys : ~Truthy(r, k)) => local[p].matched
           /\ local[p].matched <=>
                match_customer_rules(c, [r EXCEPT !.keys = @ \cap RuleKeys])

\* C16, reached: a customer has been rejected by a rule-set that holds an unknown key, min_age 0, a truthy max_age that the customer passes and a location that the customer fails.
C16_Witness ==
    \E p \in Procs :
        /\ MatchResult(p)
        /\ SeededRules.keys = {"gender", "min_age", "max_age", "location"}
        /\ SeededRules.min_age = 0
        /\ SeededRules.max_age = 30
        /\ SeededRules.location # <<>>
        /\ MatchedCustomer(p).age = 0
        /\ ~local[p].matched

\* The k-th smallest member of a set of indices.
KthOf(S, k) == CHOOSE i \in S : Cardinality({j \in S : j <= i}) = k

\* C17: the result of filter_customers_by_segment holds the customers of
\* the input that match the rules, as often as they occur and in input
\* order; with no key set it is the input.
C17_FilterIsSubsequence ==
    \A p \in Procs :
      (pc[p] = "returned" /\ local[p].op = "filter") =>
        LET input == customers_csv
            out == local[p].customers
            r == SeededRules
            hits == {i \in 1..Len(input) : match_customer_rules(input[i], r)}
        IN /\ Len(out) = Cardinality(hits)
           /\ \A k \in 1..Len(out) : out[k] = input[KthOf(hits, k)]
           /\ (\A k \in RuleKeys : ~Truthy(r, k)) => out = input

\* C17, reached: of three customers, the first and third being the same customer, a filter on a truthy key has dropped the second and kept the other two.
C17_Witness ==
    \E p \in Procs :
        /\ pc[p] = "returned"
        /\ local[p].op = "filter"
        /\ \E k \in RuleKeys : Truthy(SeededRules, k)
        /\ Len(customers_csv) = 3
        /\ customers_csv[1] = customers_csv[3]
        /\ customers_csv[2] # customers_csv[3]
        /\ local[p].customers = <<customers_csv[1], customers_csv[3]>>

\* C18: with a non-empty location as the only constraint, a customer
\* matches exactly when the rule's text in lower case occurs as a run of
\* neighbouring letters in the customer's location in lower case; a customer
\* without a location field is rejected.
C18_LocationSubstring ==
    \A p \in Procs :
      (/\ MatchResult(p)
       /\ Truthy(SeededRules, "location")
       /\ \A k \in RuleKeys \ {"location"} : ~Truthy(SeededRules, k)) =>
        LET c == MatchedCustomer(p)
        IN /\ local[p].matched <=>
                Occurs(Lowered(SeededRules.location), Lowered(LocationOf(c)))
           /\ "location" \notin DOMAIN c => ~local[p].matched

\* C18, reached: the rule text "nk" has matched a customer located "aNK", in the middle of the text and in another case.
C18_Witness ==
    \E p \in Procs :
        /\ MatchResult(p)
        /\ SeededRules.keys = {"location"}
        /\ SeededRules.location = <<"n", "k">>
        /\ MatchedCustomer(p) = Customer5
        /\ local[p].matched

\* Caller p has the result of a get_campaign_metrics call.
MetricsResult(p) == pc[p] = "returned" /\ local[p].op = "campaign_metrics"

\* The text of a campaign id as given to a query.
IdText(v) == IF v.type = "int" THEN Decimal[v.value] ELSE v.value

\* The events of the log of that campaign and type.
EventsOf(campaign_id, event_type) ==
    {i \in 1..Len(events_csv) :
        /\ events_csv[i].campaign_id = campaign_id
        /\ events_csv[i].event_type = event_type}

\* C19: for every seeded event log and every campaign id, given as text or
\* as an integer, get_campaign_metrics returns as sent, opened, clicked and
\* converted the number of events of that type whose campaign_id is the
\* text of the id; events of other campaigns and of other types count
\* nowhere.
C19_CampaignCounts ==
    \A p \in Procs :
      MetricsResult(p) =>
        LET m == local[p].metrics
            id == IdText(m.campaign_id)
        IN /\ m.sent = Cardinality(EventsOf(id, "sent"))
           /\ m.opened = Cardinality(EventsOf(id, "opened"))
           /\ m.clicked = Cardinality(EventsOf(id, "clicked"))
           /\ m.converted = Cardinality(EventsOf(id, "converted"))
           /\ m.sent + m.opened + m.clicked + m.converted
                = Cardinality({i \in 1..Len(events_csv) :
                                 /\ events_csv[i].campaign_id = id
                                 /\ events_csv[i].event_type
                                      \in {"sent", "opened", "clicked", "converted"}})

\* C19, reached: a query with the integer 1 has counted one sent event of campaign 1 in a log that also holds a sent event of campaign 2 and an event of campaign 1 of an unknown type.
C19_Witness ==
    \E p \in Procs :
        /\ MetricsResult(p)
        /\ local[p].metrics.campaign_id.type = "int"
        /\ local[p].metrics.sent = 1
        /\ \E i, j \in 1..Len(events_csv) :
              /\ events_csv[i].campaign_id = "2"
              /\ events_csv[i].event_type = "sent"
              /\ events_csv[j].campaign_id = "1"
              /\ events_csv[j].event_type = "bounced"

\* A rate, in hundredths of a percent, is count * 100 / sent exactly.
ExactRate(r, count, sent) == r * sent = count * 10000

\* A rate, in hundredths of a percent, is count * 100 / sent rounded to the
\* nearest hundredth.
RoundedRate(r, count, sent) ==
    /\ 2 * (r * sent - count * 10000) <= sent
    /\ 2 * (count * 10000 - r * sent) <= sent

\* C20 as claimed: when sent > 0, the three rates are opened * 100 / sent,
\* clicked * 100 / sent and converted * 100 / sent.
C20_RatesExact ==
    \A p \in Procs :
      (MetricsResult(p) /\ local[p].metrics.sent > 0) =>
        LET m == local[p].metrics
        IN /\ ExactRate(m.open_rate, m.opened, m.sent)
           /\ ExactRate(m.click_rate, m.clicked, m.sent)
           /\ ExactRate(m.conversion_rate, m.converted, m.sent)

\* C20, amended: when sent > 0, the three rates are opened * 100 / sent,
\* clicked * 100 / sent and converted * 100 / sent, each rounded to two
\* decimals, the sent count of the same campaign being the denominator of
\* all three; 10 sent, 7 opened, 4 clicked and 2 converted give 70, 40, 20.
C20_RatesRounded ==
    \A p \in Procs :
      (MetricsResult(p) /\ local[p].metrics.sent > 0) =>
        LET m == local[p].metrics
        IN /\ RoundedRate(m.open_rate, m.opened, m.sent)
           /\ RoundedRate(m.click_rate, m.clicked, m.sent)
           /\ RoundedRate(m.conversion_rate, m.converted, m.sent)
           /\ (m.sent = 10 /\ m.opened = 7 /\ m.clicked = 4 /\ m.converted = 2)
                => /\ m.open_rate = 7000
                   /\ m.click_rate = 4000
                   /\ m.conversion_rate = 2000

\* C20, reached: 3 sent, 2 opened, 1 clicked and no converted event have given the rates 66.67, 33.33 and 0.
C20_Witness ==
    \E p \in Procs :
        /\ MetricsResult(p)
        /\ local[p].metrics.sent = 3
        /\ local[p].metrics.opened = 2
        /\ local[p].metrics.clicked = 1
        /\ local[p].metrics.converted = 0
        /\ local[p].metrics.open_rate = 6667
        /\ local[p].metrics.click_rate = 3333
        /\ local[p].metrics.conversion_rate = 0

\* Caller p has the result of a get_overall_metrics call.
OverallResult(p) == pc[p] = "returned" /\ local[p].op = "overall_metrics"

\* C21: get_campaign_metrics returns the three rates 0 whenever the campaign
\* has no sent event, opened, clicked or converted events or not, and four
\* counts 0 with them when the campaign has no event at all;
\* get_overall_metrics returns its three rates 0 when the log has no sent
\* event.
C21_ZeroSentZeroRates ==
    \A p \in Procs :
      /\ MetricsResult(p) =>
           LET m == local[p].metrics
               id == IdText(m.campaign_id)
           IN /\ EventsOf(id, "sent") = {}
                   => /\ m.open_rate = 0
                      /\ m.click_rate = 0
                      /\ m.conversion_rate = 0
              /\ (\A i \in 1..Len(events_csv) : events_csv[i].campaign_id # id)
                   => /\ m.sent = 0 /\ m.opened = 0
                      /\ m.clicked = 0 /\ m.converted = 0
                      /\ m.open_rate = 0
                      /\ m.click_rate = 0
                      /\ m.conversion_rate = 0
      /\ OverallResult(p) =>
           LET m == local[p].metrics
           IN (\A i \in 1..Len(events_csv) : events_csv[i].event_type # "sent")
                => /\ m.total_sent = 0
                   /\ m.overall_open_rate = 0
                   /\ m.overall_click_rate = 0
                   /\ m.overall_conversion_rate = 0

\* C21, reached: the metrics of a campaign with opened, clicked and converted events and no sent event have come back with the three rates 0.
C21_Witness ==
    \E p \in Procs :
        /\ MetricsResult(p)
        /\ local[p].metrics.sent = 0
        /\ local[p].metrics.opened > 0
        /\ local[p].metrics.clicked > 0
        /\ local[p].metrics.converted > 0
        /\ local[p].metrics.open_rate = 0
        /\ local[p].metrics.conversion_rate = 0

\* The metrics of the i-th campaign of the collection.
MetricsOfRow(i) ==
    get_campaign_metrics([type |-> "str", value |-> campaigns_csv[i].campaign_id])

\* C22: in every state that create_segment, create_campaign and send alone
\* have led to under a single writer, the metrics of every campaign have
\* converted <= clicked <= opened <= sent, and each rate lies between 0 and
\* 100.
C22_FunnelNarrows ==
    direct = 0 =>
      \A i \in 1..Len(campaigns_csv) :
        LET m == MetricsOfRow(i)
        IN /\ m.converted <= m.clicked
           /\ m.clicked <= m.opened
           /\ m.opened <= m.sent
           /\ \A r \in {m.open_rate, m.click_rate, m.conversion_rate} :
                 r >= 0 /\ r <= 10000

\* C22, reached: sends alone have given a campaign two sent events, one opened, one clicked and one converted.
C22_Witness ==
    /\ direct = 0
    /\ \E i \in 1..Len(campaigns_csv) :
          LET m == MetricsOfRow(i)
          IN /\ m.sent = 2
             /\ m.opened = 1
             /\ m.clicked = 1
             /\ m.converted = 1
             /\ m.open_rate = 5000

\* The events of the log of that type, of whatever campaign.
EventsOfType(event_type) ==
    {i \in 1..Len(events_csv) : events_csv[i].event_type = event_type}

\* C23: get_overall_metrics counts every event of the log by its type,
\* whatever its campaign_id and whether a campaign of that id exists, and
\* its three rates are the totals over total_sent, rounded to two decimals.
C23_OverallCounts ==
    \A p \in Procs :
      OverallResult(p) =>
        LET m == local[p].metrics
        IN /\ m.total_sent = Cardinality(EventsOfType("sent"))
           /\ m.total_opened = Cardinality(EventsOfType("opened"))
           /\ m.total_clicked = Cardinality(EventsOfType("clicked"))
           /\ m.total_converted = Cardinality(EventsOfType("converted"))
           /\ m.total_sent > 0
                => /\ RoundedRate(m.overall_open_rate, m.total_opened, m.total_sent)
                   /\ RoundedRate(m.overall_click_rate, m.total_clicked, m.total_sent)
                   /\ RoundedRate(m.overall_conversion_rate, m.total_converted,
                                  m.total_sent)

\* C23, reached: the overall metrics have counted two sent events and one opened, of campaigns 1 and 2, while the collection holds campaign 1 only.
C23_Witness ==
    \E p \in Procs :
        /\ OverallResult(p)
        /\ Len(campaigns_csv) = 1
        /\ local[p].metrics.total_sent = 2
        /\ local[p].metrics.total_opened = 1
        /\ local[p].metrics.overall_open_rate = 5000
        /\ \E i, j \in 1..Len(events_csv) :
              /\ events_csv[i].campaign_id = "1"
              /\ events_csv[j].campaign_id = "2"
              /\ events_csv[j].event_type = "sent"

\* C24: get_all_campaign_metrics returns one entry per row of the campaign
\* collection, in the order of the rows; the i-th entry carries the id, the
\* name and the present status of the i-th row and the counts and rates
\* that get_campaign_metrics gives for that id.
C24_AllCampaignMetrics ==
    \A p \in Procs :
      (pc[p] = "returned" /\ local[p].op = "all_campaign_metrics") =>
        LET all == local[p].all_metrics
        IN /\ Len(all) = Len(campaigns_csv)
           /\ \A i \in 1..Len(all) :
                 LET id == campaigns_csv[i].campaign_id
                     m == MetricsOfRow(i)
                 IN /\ IdText(all[i].campaign_id) = id
                    /\ all[i].campaign_name = campaigns_csv[i].name
                    /\ all[i].status = campaigns_csv[i].status
                    /\ all[i].sent = Cardinality(EventsOf(id, "sent"))
                    /\ all[i].opened = Cardinality(EventsOf(id, "opened"))
                    /\ all[i].clicked = Cardinality(EventsOf(id, "clicked"))
                    /\ all[i].converted = Cardinality(EventsOf(id, "converted"))
                    /\ all[i].open_rate = m.open_rate
                    /\ all[i].click_rate = m.click_rate
                    /\ all[i].conversion_rate = m.conversion_rate

\* C24, reached: the metrics of all campaigns have come back for a sent first campaign without events and a sent second campaign with events, in that order.
C24_Witness ==
    \E p \in Procs :
        /\ pc[p] = "returned"
        /\ local[p].op = "all_campaign_metrics"
        /\ Len(local[p].all_metrics) = 2
        /\ local[p].all_metrics[1].status = "sent"
        /\ local[p].all_metrics[1].sent = 0
        /\ local[p].all_metrics[2].status = "sent"
        /\ local[p].all_metrics[2].sent = 2
        /\ local[p].all_metrics[2].opened = 1

\* A customers row that does not convert is in the customers file.
HasMalformedRow ==
    exists.customers /\ \E i \in 1..Len(customers_csv) : is_malformed(customers_csv[i])

\* The rule payload of the first segments row does not parse.
UnparseablePayload ==
    exists.segments /\ Len(segments_csv) > 0 /\ ~segments_csv[1].rules_json.parses

\* C25: each loader returns the empty list when its file is absent,
\* whatever the other files hold; get_campaign_metrics called while the
\* events file is absent returns sent = 0, and send_campaign whose guard
\* runs while the campaigns file is absent returns 0 and writes no event.
C25_AbsentLoadsEmpty ==
    /\ [](/\ ~exists.customers => load_customers = <<>>
          /\ ~exists.segments => load_segments = <<>>
          /\ ~exists.campaigns => load_campaigns = <<>>
          /\ ~exists.events => load_events = <<>>)
    /\ [][\A p \in Procs :
            /\ (Ready(p) /\ ~exists.events /\ pc'[p] = "returned"
                  /\ local'[p].op = "campaign_metrics")
                 => local'[p].metrics.sent = 0
            /\ (pc[p] = "send_guard" /\ ~exists.campaigns
                  /\ pc'[p] # "send_guard")
                 => /\ pc'[p] = "returned"
                    /\ local'[p].op = "send"
                    /\ local'[p].ret = 0
                    /\ events_csv' = events_csv]_vars

\* C25, reached: a send has returned 0 without passing its guard while the campaigns file is absent and customers and a segment are there.
C25_Witness ==
    \E p \in Procs :
        /\ pc[p] = "returned"
        /\ local[p].op = "send"
        /\ local[p].ret = 0
        /\ ~local[p].draft
        /\ ~exists.campaigns
        /\ ~exists.events
        /\ Len(load_customers) > 0
        /\ Len(load_segments) > 0

\* C26: a customers file that holds a row whose age or total_spent does
\* not convert loads as the empty list, wherever the row stands.
C26_MalformedLoadsEmpty ==
    HasMalformedRow => load_customers = <<>>

\* C27: no operation ends in an exception that nothing catches, for any
\* content of the collections.
C27_NoUncaughtError ==
    \A p \in Procs : pc[p] # "raised"

\* C28: a segments row whose rule payload does not parse is loaded, with
\* the empty rules; filtering the customers with its rules keeps every
\* loaded customer, and a send of a draft campaign that targets it
\* resolves every loaded customer and returns their number.
C28_UnparseableMatchesAll ==
    /\ [](/\ Len(load_segments) = IF exists.segments THEN Len(segments_csv) ELSE 0
          /\ \A i \in 1..Len(load_segments) :
                ~segments_csv[i].rules_json.parses
                  => load_segments[i].rules = NoRules
          /\ \A p \in Procs :
                (pc[p] = "returned" /\ local[p].op = "filter"
                  /\ UnparseablePayload)
                 => local[p].customers = load_customers)
    /\ [][\A p \in Procs :
            /\ (pc[p] = "send_resolve" /\ pc'[p] # "send_resolve"
                  /\ UnparseablePayload
                  /\ get_campaign_by_id(local[p].campaign_id) # None
                  /\ get_campaign_by_id(local[p].campaign_id).segment_id = "1")
                 => /\ pc'[p] # "raised"
                    /\ local'[p].customers = load_customers
            /\ (pc[p] \in {"status_read", "status_write"}
                  /\ pc'[p] = "returned")
                 => local'[p].ret = Len(local[p].customers)]_vars

\* C28, reached: a send of the draft campaign has returned 2, both customers have a sent event, and the payload of the targeted segment does not parse.
C28_Witness ==
    \E p \in Procs :
        /\ pc[p] = "returned"
        /\ local[p].op = "send"
        /\ local[p].draft
        /\ local[p].ret = 2
        /\ UnparseablePayload
        /\ customers_csv = <<Customer1, Customer2>>
        /\ \A c \in {"1", "2"} :
              \E i \in 1..Len(events_csv) :
                  /\ events_csv[i].customer_id = c
                  /\ events_csv[i].event_type = "sent"

\* The value the rules hold for a recognised key: a number for the three
\* thresholds, a text for the location.
RuleValue(rules, k) ==
    IF k \in NumericKeys
    THEN [numeric |-> k \notin rules.non_numeric, value |-> rules[k]]
    ELSE [numeric |-> FALSE, value |-> rules.location]

\* The indices of the customers that violate no set constraint of the
\* rules: the customers a filter with those rules is to keep.
Kept(customers, rules) ==
    {i \in 1..Len(customers) :
        \A k \in RuleKeys : Truthy(rules, k) => ~Violates(customers[i], rules, k)}

\* C29: the segment found under the id that create_segment(name, rules)
\* returned has the name passed in and rules that hold, for every
\* recognised key of the rules passed in, the value passed in, and no
\* recognised key that was not passed in; filtering the customers with
\* the rules found keeps the customers that filtering with the rules
\* passed in keeps.
C29_RulesRoundTrip ==
    \A p \in Procs :
      (pc[p] = "returned" /\ local[p].op = "lookup") =>
        LET name == local[p].args[1]
            rules == local[p].args[2]
            segment == local[p].row
        IN /\ segment # None
           /\ segment.segment_id = local[p].ret_id
           /\ segment.segment_name = name
           /\ segment.rules.keys \cap RuleKeys = rules.keys \cap RuleKeys
           /\ \A k \in rules.keys \cap RuleKeys :
                 RuleValue(segment.rules, k) = RuleValue(rules, k)
           /\ local[p].customers =
                 filter_customers_by_segment(load_customers, rules)
           /\ \A i \in 1..Len(load_customers) :
                 (i \in Kept(load_customers, rules))
                   <=> (\E j \in 1..Len(local[p].customers) :
                          local[p].customers[j] = load_customers[i])

\* C29, reached: the second segment created, with all four keys set, has been looked up under its id "2" after a first segment of another name and other rules, and the filter with its rules keeps one customer and drops two.
C29_Witness ==
    \E p \in Procs :
        /\ pc[p] = "returned"
        /\ local[p].op = "lookup"
        /\ local[p].ret_id = "2"
        /\ local[p].args[1] = "VIP"
        /\ local[p].args[2].keys = RuleKeys
        /\ local[p].args[2].location = <<"n", "K">>
        /\ segments_csv[1].segment_name = "Seg"
        /\ segments_csv[1].rules_json # segments_csv[2].rules_json
        /\ Len(local[p].customers) = 1
        /\ Len(load_customers) = 3

\* The session holds a user_id.
LoggedIn == "user_id" \in session.keys

\* The text without the blanks at its two ends.
Trimmed(text) ==
    LET inner == {i \in 1..Len(text) : text[i] # " "}
    IN IF inner = {} THEN <<>>
       ELSE SubSeq(text, CHOOSE i \in inner : \A j \in inner : i <= j,
                         CHOOSE i \in inner : \A j \in inner : j <= i)

\* The pair is the configured default pair or a row of the users file.
ValidCredentials(username, password) ==
    \/ <<username, password>> = <<DEFAULT_USERNAME, DEFAULT_PASSWORD>>
    \/ /\ exists.users
       /\ \E i \in 1..Len(users_csv) :
             /\ ~is_malformed(users_csv[i])
             /\ <<users_csv[i].username, users_csv[i].password>>
                  = <<username, password>>

\* The operations that only the handlers of the marketing routes run.
HandlerOps ==
    {"dashboard", "analytics", "send_route", "send", "create_segment",
     "create_campaign"}

\* C30: a handler of a marketing route starts, and a collection changes,
\* only in a step taken while the session holds a user_id; a request of
\* such a route made without it is answered by the redirect to login; the
\* session gets a user_id only in a POST to login whose name, stripped,
\* and password are the default pair or a row of the users file, and the
\* user_id is that name; after a logout the session holds no user_id.
C30_LoginRequired ==
    [][\A p \in Procs :
         /\ (local'[p] # local[p] /\ local'[p].op \in HandlerOps) => LoggedIn
         /\ (<<customers_csv, segments_csv, campaigns_csv, events_csv>>'
               # <<customers_csv, segments_csv, campaigns_csv, events_csv>>)
              => LoggedIn
         /\ (local'[p] # local[p] /\ local'[p].op = "login_required")
              => /\ ~LoggedIn
                 /\ local'[p].response = "redirect_login"
         /\ (~LoggedIn /\ local'[p] # local[p]
               /\ local'[p].op \notin {"login", "logout"})
              => /\ local'[p].op = "login_required"
                 /\ local'[p].response = "redirect_login"
         /\ (~LoggedIn /\ LoggedIn')
              => /\ local'[1].op = "login"
                 /\ local'[1].args[1] = "POST"
                 /\ session'.user_id = Trimmed(local'[1].args[2])
                 /\ ValidCredentials(Trimmed(local'[1].args[2]),
                                     local'[1].args[3])
         /\ (local'[p] # local[p] /\ local'[p].op = "logout") => ~LoggedIn'
         /\ (LoggedIn /\ ~LoggedIn') => local'[1].op = "logout"
      ]_vars

\* C30, reached: after a login, a segment and a campaign created and the campaign sent, and a logout, the request of a marketing route has been answered by the redirect to login.
C30_Witness ==
    \E p \in Procs :
        /\ pc[p] = "returned"
        /\ local[p].op = "login_required"
        /\ local[p].response = "redirect_login"
        /\ ~LoggedIn
        /\ Len(segments_csv) = 1
        /\ Len(campaigns_csv) = 1
        /\ campaigns_csv[1].status = "sent"

\* C31: a create_campaign on a campaigns file whose ids are all different
\* leaves a file whose ids are all different, and the campaign found
\* under the returned id is the one just created.
C31_CreateKeepsIdsUnique ==
    [][\A p \in Procs :
         /\ (pc[p] = "cc_write" /\ pc'[p] = "returned"
               /\ ~DuplicateId(campaigns_csv, "campaign_id"))
              => ~DuplicateId(campaigns_csv', "campaign_id")
         /\ (pc[p] = "returned" /\ local[p].op = "create_campaign"
               /\ local'[p].op = "lookup_campaign"
               /\ ~DuplicateId(SubSeq(campaigns_csv, 1, Len(campaigns_csv) - 1),
                               "campaign_id"))
              => local'[p].row = CreatedCampaign(local[p].ret_id, local[p].args)
      ]_vars

\* The process of caller p died in the middle of a send.
Crashed(p) == pc[p] = "crashed"

\* The sent events of the log for the campaign and the customer.
SentEventsOf(campaign_id, customer_id) ==
    {i \in 1..Len(events_csv) :
        /\ events_csv[i].campaign_id = campaign_id
        /\ events_csv[i].customer_id = customer_id
        /\ events_csv[i].event_type = "sent"}

\* C32: a send that dies after its guard and before the status rewrite
\* leaves the campaign draft with the events it wrote; a send whose guard
\* finds the campaign draft goes on, and at its return it has appended
\* one sent event per audience customer, whatever sent events of those
\* customers the log held already; as long as no send has died no pair of
\* campaign and customer has two sent events.
C32_InterruptedSend ==
    /\ [][\A p \in Procs :
            /\ (~Crashed(p) /\ Crashed(p)' /\ local[p].draft)
                 => /\ HasStatus(campaigns_csv', local[p].campaign_id, "draft")
                    /\ events_csv' = events_csv
            /\ (pc[p] = "send_guard" /\ pc'[p] \notin {"send_guard", "crashed"}
                  /\ HasStatus(campaigns_csv, local[p].campaign_id, "draft"))
                 => pc'[p] = "send_resolve"
            /\ (SendReturns(p) /\ local[p].draft)
                 => LET audience == get_campaign_customers(local[p].campaign_id)
                        before == Len(local[p].events0)
                        appended == SubSeq(events_csv', before + 1, Len(events_csv'))
                        sent == SelectSeq(appended, IsSentEvent)
                    IN /\ local'[p].ret = Len(audience)
                       /\ Len(sent) = Len(audience)
                       /\ \A i \in 1..Len(sent) :
                             /\ sent[i].customer_id = audience[i].customer_id
                             /\ sent[i].campaign_id = local[p].campaign_id
                             /\ Cardinality(
                                    {j \in 1..Len(events_csv') :
                                       /\ events_csv'[j].campaign_id = local[p].campaign_id
                                       /\ events_csv'[j].customer_id = sent[i].customer_id
                                       /\ events_csv'[j].event_type = "sent"})
                                  = 1 + Cardinality(
                                          {j \in 1..before :
                                             /\ events_csv[j].campaign_id = local[p].campaign_id
                                             /\ events_csv[j].customer_id = sent[i].customer_id
                                             /\ events_csv[j].event_type = "sent"})
       ]_vars
    /\ []((\A q \in Procs : ~Crashed(q))
            => \A i \in 1..Len(customers_csv) :
                  Cardinality(SentEventsOf("1", customers_csv[i].customer_id)) <= 1)

\* C32, reached: one send died after it had written events, the send after it has returned 2 with the campaign sent, and the first customer has two sent events of the campaign.
C32_Witness ==
    \E p, q \in Procs :
        /\ Crashed(q)
        /\ pc[p] = "returned"
        /\ local[p].op = "send"
        /\ local[p].draft
        /\ local[p].ret = 2
        /\ HasStatus(campaigns_csv, "1", "sent")
        /\ Cardinality(SentEventsOf("1", "1")) = 2
        /\ Cardinality(SentEventsOf("1", "2")) = 1

\* Caller p holds the result of a send that passed the draft guard.
DraftSendResult(p) ==
    pc[p] = "returned" /\ local[p].op = "send" /\ local[p].draft

\* C33: a send whose guard reads the campaign as draft passes it, also
\* while another send of the campaign is past its own guard; every send
\* that passed the guard returns the audience size; when both callers
\* hold the result of such a send, every audience customer has two sent
\* events of the campaign.
C33_InterleavedSends ==
    /\ [][\A p \in Procs :
            /\ (pc[p] = "send_guard" /\ pc'[p] # "send_guard"
                  /\ HasStatus(campaigns_csv, local[p].campaign_id, "draft"))
                 => pc'[p] = "send_resolve"
            /\ (SendReturns(p) /\ local[p].draft)
                 => local'[p].ret = Len(customers_csv)
       ]_vars
    /\ []((\A p \in Procs : DraftSendResult(p))
            => \A i \in 1..Len(customers_csv) :
                  Cardinality(SentEventsOf("1", customers_csv[i].customer_id)) = 2)

\* C33, reached: both callers have returned 2 from a send of the campaign that passed the guard, both customers have two sent events, and two events of the log carry the same id.
C33_Witness ==
    /\ \A p \in Procs : DraftSendResult(p) /\ local[p].ret = 2
    /\ \A c \in {"1", "2"} : Cardinality(SentEventsOf("1", c)) = 2
    /\ DuplicateId(events_csv, "event_id")

\* Caller p writes the campaigns back in this step.
StatusWrite(p) == pc[p] = "status_write" /\ pc'[p] # "status_write"

\* C34: the write of update_campaign_status leaves as many rows as its
\* read found: a row appended to the file since the read is not in the
\* file after the write, and no campaign has its id when no row read had
\* it; a row of another campaign that was draft at the read and has
\* become sent since is draft after the write.
C34_RewriteLosesUpdates ==
    [][\A p \in Procs :
         StatusWrite(p) =>
           LET read == local[p].campaigns
           IN /\ Len(campaigns_csv') = Len(read)
              /\ \A i \in (Len(read) + 1)..Len(campaigns_csv) :
                    RowsOf(read, "campaign_id", campaigns_csv[i].campaign_id) = {}
                      => RowsOf(campaigns_csv', "campaign_id",
                                campaigns_csv[i].campaign_id) = {}
              /\ \A i \in 1..Len(read) :
                    (/\ i <= Len(campaigns_csv)
                     /\ read[i].campaign_id # local[p].campaign_id
                     /\ read[i].status = "draft"
                     /\ campaigns_csv[i].status = "sent")
                      => campaigns_csv'[i].status = "draft"
      ]_vars

\* C34, reached: a send of campaign 1 has returned; the other caller holds the id 3 of a campaign it created and no campaign has that id; campaign 2 is draft and the log holds a sent event of it.
C34_Witness ==
    \E p, q \in Procs :
        /\ pc[p] = "returned" /\ local[p].op = "send"
        /\ local[p].campaign_id = "1" /\ local[p].draft
        /\ pc[q] = "returned" /\ local[q].op = "create_campaign"
        /\ local[q].ret_id = "3"
        /\ RowsOf(campaigns_csv, "campaign_id", "3") = {}
        /\ HasStatus(campaigns_csv, "1", "sent")
        /\ HasStatus(campaigns_csv, "2", "draft")
        /\ SentEventsOf("2", "1") # {}

\* The sum of a count over the entries of get_all_campaign_metrics.
RECURSIVE SumOver(_, _)
SumOver(all, count) ==
    IF all = <<>> THEN 0
    ELSE all[1][count] + SumOver(Tail(all), count)

\* The events of a type whose campaign_id is the id of no campaign.
Orphans(event_type) ==
    {i \in EventsOfType(event_type) :
        RowsOf(campaigns_csv, "campaign_id", events_csv[i].campaign_id) = {}}

AppendsOne(before, after) ==
    /\ Len(after) = Len(before) + 1
    /\ SubSeq(after, 1, Len(before)) = before

\* C36: every step of create_segment leaves the campaigns, the events and
\* the customers as they are, and its write appends one row to the
\* segments and keeps the rows before it; every step of create_campaign
\* leaves segments, events and customers and its write appends one row to
\* the campaigns; every step of a direct create_event leaves segments,
\* campaigns and customers and its write appends one row to the events;
\* no step of any operation changes the customers.
C36_WritesOwnCollection ==
    [][/\ customers_csv' = customers_csv
       /\ \A p \in Procs :
            /\ (pc[p] = "cs_write" /\ pc'[p] # "cs_write")
                 => /\ AppendsOne(segments_csv, segments_csv')
                    /\ UNCHANGED <<campaigns_csv, events_csv>>
            /\ (pc'[p] = "cs_write" /\ pc[p] # "cs_write")
                 => UNCHANGED <<segments_csv, campaigns_csv, events_csv>>
            /\ (pc[p] = "cc_write" /\ pc'[p] # "cc_write")
                 => /\ AppendsOne(campaigns_csv, campaigns_csv')
                    /\ UNCHANGED <<segments_csv, events_csv>>
            /\ (pc'[p] = "cc_write" /\ pc[p] # "cc_write")
                 => UNCHANGED <<segments_csv, campaigns_csv, events_csv>>
            /\ (local[p].op = "record" /\ pc[p] = "ev_write"
                  /\ pc'[p] # "ev_write")
                 => /\ AppendsOne(events_csv, events_csv')
                    /\ UNCHANGED <<segments_csv, campaigns_csv>>
            /\ (local'[p].op = "record" /\ Running(p)' /\ pc'[p] # "ev_write")
                 => UNCHANGED <<segments_csv, campaigns_csv, events_csv>>
      ]_vars

\* C36, reached: a direct create_event has returned with two segments, a campaign and an event in the files and both customers still there.
C36_Witness ==
    \E p \in Procs :
        /\ pc[p] = "returned"
        /\ local[p].op = "record"
        /\ Len(segments_csv) = 2
        /\ segments_csv[1].rules_json # segments_csv[2].rules_json
        /\ Len(campaigns_csv) = 1
        /\ Len(events_csv) = 1
        /\ customers_csv = <<Customer1, Customer2>>

\* The loaded customers that violate no set constraint of the rules.
Matching(rules) ==
    SelectSeq(load_customers,
              LAMBDA c : \A k \in RuleKeys : Truthy(rules, k) => ~Violates(c, rules, k))

\* The segment the campaign of that id points to, None without one.
TargetOf(campaign_id) ==
    LET rows == RowsOf(campaigns_csv, "campaign_id", campaign_id)
    IN IF ~exists.campaigns \/ ~exists.segments \/ rows = {} THEN None
       ELSE LET target == campaigns_csv[CHOOSE i \in rows : \A j \in rows : i <= j].segment_id
                found == RowsOf(segments_csv, "segment_id", target)
            IN IF found = {} THEN None
               ELSE segments_csv[CHOOSE i \in found : \A j \in found : i <= j]

\* C37: the audience of a campaign is that of the segments file at the
\* call.  The write of create_segment that gives a segment the id a
\* campaign points to turns the campaign's audience from empty into the
\* customers matching the rules passed to create_segment; a
\* get_campaign_customers call and the audience step of a send, which only
\* a campaign still draft reaches, return the empty list while no segment
\* has the id, and the customers matching the segment's rules once one has.
C37_AudienceAtSendTime ==
    [][\A p \in Procs :
         /\ (pc[p] = "cs_write" /\ pc'[p] = "returned"
               /\ exists.campaigns
               /\ \E i \in 1..Len(campaigns_csv) :
                     /\ campaigns_csv[i].campaign_id = "1"
                     /\ campaigns_csv[i].segment_id = local[p].row.segment_id
               /\ RowsOf(segments_csv, "segment_id", local[p].row.segment_id) = {}
               /\ ~get_campaign_customers_raises("1")')
              => /\ get_campaign_customers("1") = <<>>
                 /\ get_campaign_customers("1")' = Matching(local[p].args[2])
         /\ (Ready(p) /\ pc'[p] = "returned" /\ local'[p].op = "resolve"
               /\ local'[p] # local[p])
              => local'[p].customers =
                    IF TargetOf("1") = None THEN <<>>
                    ELSE Matching(parse_rules(TargetOf("1").rules_json))
         /\ (pc[p] = "send_guard" /\ pc'[p] = "send_resolve")
              => HasStatus(campaigns_csv, local[p].campaign_id, "draft")
         /\ (pc[p] = "send_resolve" /\ pc'[p] \notin {"send_resolve", "raised"})
              => /\ local[p].draft
                 /\ local'[p].customers =
                       IF TargetOf(local[p].campaign_id) = None THEN <<>>
                       ELSE Matching(parse_rules(
                                TargetOf(local[p].campaign_id).rules_json))
      ]_vars

\* C37, reached: create_segment has returned the id 1 for rules with min_age 30 while a draft campaign pointing to segment 1 was already in the file, and the campaign's audience is now the second of the two customers.
C37_Witness ==
    \E p \in Procs :
        /\ pc[p] = "returned"
        /\ local[p].op = "create_segment"
        /\ local[p].ret_id = "1"
        /\ local[p].args[2].keys = {"min_age"}
        /\ Len(segments_csv) = 1
        /\ HasStatus(campaigns_csv, "1", "draft")
        /\ exists.campaigns
        /\ campaigns_csv[1].segment_id = "1"
        /\ customers_csv = <<Customer1, Customer2>>
        /\ get_campaign_customers("1") = <<Customer2>>

====
